---- MODULE Spec2Model ----
(***************************************************************************)
(* The media aggregation pipeline of daily-debrief: five source adapters,  *)
(* the similarity and dedup engine, and the aggregator fetchAllMediaSources.*)
(*                                                                         *)
(* A JavaScript string is a sequence of one-character strings, so that     *)
(* toLowerCase, replace, split, includes and substring are computed.       *)
(* null, undefined and an absent property are one value, Null; an absent   *)
(* number is NoNum.  A date is a day number; Today is the day of the run.  *)
(***************************************************************************)
EXTENDS Integers, Sequences, FiniteSets, TLC

VARIABLES
  itemA, itemB,   \* the two arguments of areDuplicates and mergeItems
  pairOut,        \* what the engine returned for them
  mergeArgs,      \* the primary and the secondary of a mergeItems call
  mergeOut,       \* the item it returned, and that item merged with the secondary again
  textArgs,       \* two texts, arguments of the text normalizer and of textSimilarity
  textOut,        \* the function applied to them and what it returned
  route,          \* what the upstream answers at each url of a fetchURL call
  hop,            \* the url the call's current request was sent to
  fetched,        \* the promise fetchURL returned
  dedupIn,        \* the argument of deduplicateAndMerge
  merged,         \* its merged list so far
  cursor,         \* the number of items its outer loop has taken
  members,        \* history: for each cluster, the positions of the items merged into it
  adapter,        \* the adapter a caller invoked on its own, or "none"
  aopts,          \* the options of that call
  inflight,       \* its requests that have not called back
  quiet,          \* those of them the upstream will never answer
  hops,           \* the redirects its requests have followed
  locals,         \* the locals its callbacks share
  settled,        \* its promise
  replies,        \* history: how its requests ended (ok, parse, transport)
  served,         \* history: what each of its requests that ended was answered
  options,        \* the options of fetchAllMediaSources
  promise,        \* the adapter promises it launched
  unanswered,     \* the adapters waiting on an upstream that never answers
  agg,            \* its own promise
  outcome,        \* the result each adapter call is going to have
  settleOrder     \* history: the adapters in the order their promises settled

pairVars == <<itemA, itemB, pairOut>>
mergeVars == <<mergeArgs, mergeOut>>
textVars == <<textArgs, textOut>>
fetchVars == <<route, hop, fetched>>
orderVars == <<outcome, settleOrder>>
dedupVars == <<dedupIn, merged, cursor, members>>
adapterVars == <<adapter, aopts, inflight, quiet, hops, locals, settled, replies, served>>
aggVars == <<options, promise, unanswered, agg>>
vars == <<pairVars, mergeVars, textVars, fetchVars, orderVars, dedupVars, adapterVars, aggVars>>

\* null, undefined or an absent property where a string is expected
Null == <<"null">>
\* ... where an array is expected
NullList == <<<<"null", "list">>>>
\* ... where a number is expected
NoNum == 0 - 1

\* ------------------------------------------------------------------ text

LowerLetters == {"a", "b", "c", "d", "e", "f", "g", "h", "i", "j", "k", "l", "m", "n", "o", "p", "q", "r", "s", "t", "u", "v", "w", "x", "y", "z"}
Digits == {"0", "1", "2", "3", "4", "5", "6", "7", "8", "9"}

LowerTable == ("A" :> "a") @@ ("B" :> "b") @@ ("C" :> "c") @@ ("D" :> "d") @@ ("E" :> "e") @@ ("F" :> "f") @@ ("G" :> "g") @@ ("H" :> "h") @@ ("I" :> "i") @@ ("J" :> "j") @@ ("K" :> "k") @@ ("L" :> "l") @@ ("M" :> "m") @@ ("N" :> "n") @@ ("O" :> "o") @@ ("P" :> "p") @@ ("Q" :> "q") @@ ("R" :> "r") @@ ("S" :> "s") @@ ("T" :> "t") @@ ("U" :> "u") @@ ("V" :> "v") @@ ("W" :> "w") @@ ("X" :> "x") @@ ("Y" :> "y") @@ ("Z" :> "z")

Lower(c) == IF c \in DOMAIN LowerTable THEN LowerTable[c] ELSE c

toLowerCase(s) == [i \in 1..Len(s) |-> Lower(s[i])]

IsSpace(c) == c \in {" ", "\t", "\n"}

\* JavaScript truthiness of a string-valued property (null, undefined, '')
TruthyStr(s) == s # Null /\ s # <<>>
\* ... of a number-valued property (null, undefined, 0)
TruthyNum(n) == n # NoNum /\ n # 0
\* ... of an array-valued property (an empty array is truthy)
TruthyArr(x) == x # NullList

\* x || y for an array-valued x
OrElse(x, y) == IF x = NullList THEN y ELSE x

ToSet(s) == {s[i] : i \in 1..Len(s)}

\* [...new Set(seq)]: first occurrences, in insertion order
RECURSIVE Uniq(_)
Uniq(s) ==
  IF s = <<>> THEN <<>>
  ELSE LET init == Uniq(SubSeq(s, 1, Len(s) - 1))
           last == s[Len(s)]
       IN IF last \in ToSet(init) THEN init ELSE Append(init, last)

\* s.split(/\s+/) followed by the caller's length filter: the maximal runs of
\* non-whitespace characters (the empty strings split yields at the ends of
\* the string never pass a length filter)
RECURSIVE SplitFrom(_, _, _, _)
SplitFrom(s, i, run, out) ==
  IF i > Len(s) THEN (IF run = <<>> THEN out ELSE Append(out, run))
  ELSE IF IsSpace(s[i])
       THEN SplitFrom(s, i + 1, <<>>, IF run = <<>> THEN out ELSE Append(out, run))
       ELSE SplitFrom(s, i + 1, Append(run, s[i]), out)

SplitWs(s) == SplitFrom(s, 1, <<>>, <<>>)

\* s.includes(p)
Includes(s, p) ==
  \E i \in 0..(Len(s) - Len(p)) : SubSeq(s, i + 1, i + Len(p)) = p

\* s.substring(0, n)
Prefix(s, n) == SubSeq(s, 1, IF Len(s) < n THEN Len(s) ELSE n)

\* s.trim()
RECURSIVE TrimLeft(_)
TrimLeft(s) == IF s # <<>> /\ IsSpace(Head(s)) THEN TrimLeft(Tail(s)) ELSE s

RECURSIVE TrimRight(_)
TrimRight(s) ==
  IF s # <<>> /\ IsSpace(s[Len(s)]) THEN TrimRight(SubSeq(s, 1, Len(s) - 1)) ELSE s

Trim(s) == TrimRight(TrimLeft(s))

\* parts.join(sep)
RECURSIVE Join(_, _)
Join(parts, sep) ==
  IF parts = <<>> THEN <<>>
  ELSE IF Len(parts) = 1 THEN parts[1]
  ELSE parts[1] \o sep \o Join(Tail(parts), sep)

\* s.split(ch)[0]
RECURSIVE BeforeChar(_, _)
BeforeChar(s, ch) ==
  IF s = <<>> \/ Head(s) = ch THEN <<>> ELSE <<Head(s)>> \o BeforeChar(Tail(s), ch)

\* s.replace(/pat/g, rep) for a literal pat
RECURSIVE ReplaceAll(_, _, _)
ReplaceAll(s, pat, rep) ==
  IF Len(s) < Len(pat) THEN s
  ELSE IF SubSeq(s, 1, Len(pat)) = pat
       THEN rep \o ReplaceAll(SubSeq(s, Len(pat) + 1, Len(s)), pat, rep)
       ELSE <<Head(s)>> \o ReplaceAll(Tail(s), pat, rep)

\* s.replace(/<[^>]*>/g, ''): a '<' with a later '>' is removed with all
\* between them; a '<' with no later '>' stays
RECURSIVE StripTags(_)
StripTags(s) ==
  IF s = <<>> THEN <<>>
  ELSE IF Head(s) = "<" /\ \E k \in 2..Len(s) : s[k] = ">"
       THEN LET close == CHOOSE k \in 2..Len(s) :
                           s[k] = ">" /\ \A j \in 2..(k - 1) : s[j] # ">"
            IN StripTags(SubSeq(s, close + 1, Len(s)))
       ELSE <<Head(s)>> \o StripTags(Tail(s))

\* s.replace(/\s+/g, ' ')
RECURSIVE CollapseWs(_)
CollapseWs(s) ==
  IF s = <<>> THEN <<>>
  ELSE IF IsSpace(Head(s))
       THEN <<" ">> \o CollapseWs(TrimLeft(s))
       ELSE <<Head(s)>> \o CollapseWs(Tail(s))

stripHtml(html) ==
  IF ~TruthyStr(html) THEN <<>>
  ELSE Trim(CollapseWs(
         ReplaceAll(ReplaceAll(ReplaceAll(ReplaceAll(ReplaceAll(ReplaceAll(ReplaceAll(
           StripTags(html),
           <<"&","a","m","p",";">>, <<"&">>), <<"&","l","t",";">>, <<"<">>), <<"&","g","t",";">>, <<">">>), <<"&","q","u","o","t",";">>, <<"\"">>),
           <<"&","#","0","3","9",";">>, <<"'">>), <<"&","#","x","A","0",";">>, <<" ">>), <<"&","n","b","s","p",";">>, <<" ">>)))

UpperTable == ("a" :> "A") @@ ("b" :> "B") @@ ("c" :> "C") @@ ("d" :> "D") @@ ("e" :> "E") @@ ("f" :> "F") @@ ("g" :> "G") @@ ("h" :> "H") @@ ("i" :> "I") @@ ("j" :> "J") @@ ("k" :> "K") @@ ("l" :> "L") @@ ("m" :> "M") @@ ("n" :> "N") @@ ("o" :> "O") @@ ("p" :> "P") @@ ("q" :> "Q") @@ ("r" :> "R") @@ ("s" :> "S") @@ ("t" :> "T") @@ ("u" :> "U") @@ ("v" :> "V") @@ ("w" :> "W") @@ ("x" :> "X") @@ ("y" :> "Y") @@ ("z" :> "Z")

Upper(c) == IF c \in DOMAIN UpperTable THEN UpperTable[c] ELSE c

DigitValue == ("0" :> 0) @@ ("1" :> 1) @@ ("2" :> 2) @@ ("3" :> 3) @@ ("4" :> 4) @@ ("5" :> 5) @@ ("6" :> 6) @@ ("7" :> 7) @@ ("8" :> 8) @@ ("9" :> 9)

\* parseInt of a run of digits
RECURSIVE parseInt(_)
parseInt(ds) ==
  IF ds = <<>> THEN 0 ELSE 10 * parseInt(SubSeq(ds, 1, Len(ds) - 1)) + DigitValue[ds[Len(ds)]]

\* ------------------------------------------------------ text normalizer

PATHOGENS ==
  <<<<"s","a","l","m","o","n","e","l","l","a">>, <<"e","."," ","c","o","l","i">>, <<"e",".","c","o","l","i">>, <<"e","s","c","h","e","r","i","c","h","i","a"," ","c","o","l","i">>, <<"l","i","s","t","e","r","i","a">>,
    <<"c","a","m","p","y","l","o","b","a","c","t","e","r">>, <<"n","o","r","o","v","i","r","u","s">>, <<"c","l","o","s","t","r","i","d","i","u","m">>, <<"b","o","t","u","l","i","s","m">>, <<"v","i","b","r","i","o">>,
    <<"s","t","a","p","h","y","l","o","c","o","c","c","u","s">>, <<"s","h","i","g","e","l","l","a">>, <<"h","e","p","a","t","i","t","i","s"," ","a">>, <<"c","y","c","l","o","s","p","o","r","a">>, <<"c","r","o","n","o","b","a","c","t","e","r">>,
    <<"b","a","c","i","l","l","u","s"," ","c","e","r","e","u","s">>, <<"y","e","r","s","i","n","i","a">>>>

extractPathogenFrom_lastEntry(vocabulary, text) ==
  IF ~TruthyStr(text) THEN Null
  ELSE LET lower == toLowerCase(text)
           hits == {i \in 1..Len(vocabulary) : Includes(lower, vocabulary[i])}
       IN IF hits = {} THEN Null
          ELSE LET p == vocabulary[CHOOSE i \in hits : \A j \in hits : i >= j]
               IN IF p \in {<<"e","."," ","c","o","l","i">>, <<"e",".","c","o","l","i">>, <<"e","s","c","h","e","r","i","c","h","i","a"," ","c","o","l","i">>}
                  THEN <<"E","."," ","c","o","l","i">>
                  ELSE <<Upper(Head(p))>> \o Tail(p)

\* the first entry of the vocabulary (in vocabulary order) the text includes
extractPathogenFrom(vocabulary, text) ==
  IF ~TruthyStr(text) THEN Null
  ELSE LET lower == toLowerCase(text)
           hits == {i \in 1..Len(vocabulary) : Includes(lower, vocabulary[i])}
       IN IF hits = {} THEN Null
          ELSE LET p == vocabulary[CHOOSE i \in hits : \A j \in hits : i <= j]
               IN IF p \in {<<"e","."," ","c","o","l","i">>, <<"e",".","c","o","l","i">>, <<"e","s","c","h","e","r","i","c","h","i","a"," ","c","o","l","i">>}
                  THEN <<"E","."," ","c","o","l","i">>
                  ELSE <<Upper(Head(p))>> \o Tail(p)

extractPathogen(text) == extractPathogenFrom(PATHOGENS, text)

AnyIncluded(text, words) == \E w \in words : Includes(text, w)

\* categorizeArticle of the news adapter
categorizeArticle(title, description, categories) ==
  LET text == toLowerCase(title \o <<" ">> \o description \o <<" ">> \o Join(categories, <<" ">>))
  IN IF AnyIncluded(text, {<<"r","e","c","a","l","l">>, <<"r","e","c","a","l","l","e","d">>}) THEN "Recall"
     ELSE IF AnyIncluded(text, {<<"o","u","t","b","r","e","a","k">>, <<"i","l","l","n","e","s","s">>, <<"s","i","c","k">>, <<"h","o","s","p","i","t","a","l","i","z","e","d">>})
          THEN "Outbreak"
     ELSE IF AnyIncluded(text, {<<"p","o","l","i","c","y">>, <<"r","e","g","u","l","a","t","i","o","n">>, <<"l","a","w">>, <<"b","i","l","l">>, <<"f","d","a">>, <<"u","s","d","a">>})
          THEN "Policy"
     ELSE IF AnyIncluded(text, {<<"s","t","u","d","y">>, <<"r","e","s","e","a","r","c","h">>, <<"f","i","n","d","i","n","g","s">>, <<"r","e","p","o","r","t">>})
          THEN "Research"
     ELSE IF AnyIncluded(text, {<<"a","l","e","r","t">>, <<"w","a","r","n","i","n","g">>, <<"a","d","v","i","s","o","r","y">>}) THEN "Alert"
     ELSE "Research"

\* determineSeverity of the news and magazine adapters
determineSeverity(title, description) ==
  LET text == toLowerCase(title \o <<" ">> \o description)
  IN IF AnyIncluded(text, {<<"d","e","a","t","h">>, <<"d","i","e","d">>, <<"f","a","t","a","l">>, <<"c","l","a","s","s"," ","i">>}) THEN "high"
     ELSE IF AnyIncluded(text, {<<"h","o","s","p","i","t","a","l","i","z","e","d">>, <<"o","u","t","b","r","e","a","k">>, <<"r","e","c","a","l","l">>, <<"c","o","n","t","a","m","i","n","a","t","e","d">>})
          THEN "medium"
     ELSE "low"

\* determineSeverity of the outbreak adapter
determineSeverityCDC(text) ==
  IF ~TruthyStr(text) THEN "medium"
  ELSE LET lower == toLowerCase(text)
       IN IF AnyIncluded(lower, {<<"d","e","a","t","h">>, <<"d","i","e","d">>, <<"f","a","t","a","l">>}) THEN "high"
          ELSE IF AnyIncluded(lower, {<<"h","o","s","p","i","t","a","l","i","z","e","d">>, <<"h","o","s","p","i","t","a","l">>}) THEN "high"
          ELSE IF AnyIncluded(lower, {<<"o","u","t","b","r","e","a","k">>, <<"i","n","v","e","s","t","i","g","a","t","i","o","n">>}) THEN "medium"
          ELSE "low"

classificationToSeverity_noDefault(classification) ==
  IF ~TruthyStr(classification) THEN "unknown"
  ELSE IF Includes(classification, <<"I">>) /\ ~Includes(classification, <<"I","I">>)
            /\ ~Includes(classification, <<"I","I","I">>) THEN "high"
  ELSE IF Includes(classification, <<"I","I">>) /\ ~Includes(classification, <<"I","I","I">>)
       THEN "medium"
  ELSE IF Includes(classification, <<"I","I","I">>) THEN "low"
  ELSE "unknown"

\* classificationToSeverity of the recall adapters
classificationToSeverity(classification) ==
  IF ~TruthyStr(classification) THEN "medium"
  ELSE IF Includes(classification, <<"I">>) /\ ~Includes(classification, <<"I","I">>)
            /\ ~Includes(classification, <<"I","I","I">>) THEN "high"
  ELSE IF Includes(classification, <<"I","I">>) /\ ~Includes(classification, <<"I","I","I">>)
       THEN "medium"
  ELSE IF Includes(classification, <<"I","I","I">>) THEN "low"
  ELSE "medium"

ProductLen == 100

\* extractProduct of the recall REST adapter
extractProduct(description) ==
  IF ~TruthyStr(description) THEN Null
  ELSE LET cleaned == Trim(BeforeChar(BeforeChar(description, ";"), ","))
       IN IF Len(cleaned) > ProductLen
          THEN Prefix(cleaned, ProductLen) \o <<".",".",".">> ELSE cleaned

UpperLetters == {UpperTable[c] : c \in DOMAIN UpperTable}

IsWordChar(c) == c \in LowerLetters \cup UpperLetters \cup Digits \cup {"_"}

\* the maximal runs of word characters of s, in order
RECURSIVE WordRunsFrom(_, _, _, _)
WordRunsFrom(s, i, run, out) ==
  IF i > Len(s) THEN (IF run = <<>> THEN out ELSE Append(out, run))
  ELSE IF ~IsWordChar(s[i])
       THEN WordRunsFrom(s, i + 1, <<>>, IF run = <<>> THEN out ELSE Append(out, run))
       ELSE WordRunsFrom(s, i + 1, Append(run, s[i]), out)

STATE_CODES ==
  {<<"A","L">>, <<"A","K">>, <<"A","Z">>, <<"A","R">>, <<"C","A">>, <<"C","O">>, <<"C","T">>, <<"D","E">>, <<"F","L">>,
   <<"G","A">>, <<"H","I">>, <<"I","D">>, <<"I","L">>, <<"I","N">>, <<"I","A">>, <<"K","S">>, <<"K","Y">>, <<"L","A">>,
   <<"M","E">>, <<"M","D">>, <<"M","A">>, <<"M","I">>, <<"M","N">>, <<"M","S">>, <<"M","O">>, <<"M","T">>, <<"N","E">>,
   <<"N","V">>, <<"N","H">>, <<"N","J">>, <<"N","M">>, <<"N","Y">>, <<"N","C">>, <<"N","D">>, <<"O","H">>, <<"O","K">>,
   <<"O","R">>, <<"P","A">>, <<"R","I">>, <<"S","C">>, <<"S","D">>, <<"T","N">>, <<"T","X">>, <<"U","T">>, <<"V","T">>,
   <<"V","A">>, <<"W","A">>, <<"W","V">>, <<"W","I">>, <<"W","Y">>, <<"D","C">>}

\* extractStates: the state codes that stand as whole words (\b..\b), each once,
\* in order of first occurrence; null when there is none
extractStates(text) ==
  IF ~TruthyStr(text) THEN NullList
  ELSE LET states == Uniq(SelectSeq(WordRunsFrom(text, 1, <<>>, <<>>),
                                    LAMBDA w : w \in STATE_CODES))
       IN IF Len(states) > 0 THEN states ELSE NullList

CASE_WORDS == {<<"c","a","s","e">>, <<"i","l","l">>, <<"s","i","c","k">>, <<"i","n","f","e","c","t","e","d">>, <<"p","e","o","p","l","e">>, <<"p","e","r","s","o","n">>}

\* s has p at position i (1-based)
HasAt(s, i, p) == i >= 1 /\ i + Len(p) - 1 <= Len(s) /\ SubSeq(s, i, i + Len(p) - 1) = p

\* the position after the whitespace run that starts at i
RECURSIVE SkipWs(_, _)
SkipWs(s, i) == IF i <= Len(s) /\ IsSpace(s[i]) THEN SkipWs(s, i + 1) ELSE i

\* the position after the digit run that starts at i
RECURSIVE SkipDigits(_, _)
SkipDigits(s, i) == IF i <= Len(s) /\ s[i] \in Digits THEN SkipDigits(s, i + 1) ELSE i

\* extractCaseCount: the first match of /(\d+)\s*(case|ill|sick|infected|people|person)/i
extractCaseCount(text) ==
  IF ~TruthyStr(text) THEN NoNum
  ELSE LET lower == toLowerCase(text)
           Match(i) == /\ lower[i] \in Digits
                       /\ \E w \in CASE_WORDS : HasAt(lower, SkipWs(lower, SkipDigits(lower, i)), w)
           starts == {i \in 1..Len(lower) : Match(i)}
       IN IF starts = {} THEN NoNum
          ELSE LET first == CHOOSE i \in starts : \A j \in starts : i <= j
               IN parseInt(SubSeq(lower, first, SkipDigits(lower, first) - 1))

\* the key every adapter computes for an item:
\* text.toLowerCase().replace(/[^a-z0-9]/g, '').substring(0, 60)
DedupKeyLen == 60
dedupKeyOf(text) ==
  Prefix(SelectSeq(toLowerCase(text), LAMBDA c : c \in LowerLetters \cup Digits),
         DedupKeyLen)

\* ---------------------------------------------------------- media items

ItemFields ==
  {"source_type", "sources", "source_urls", "title", "summary", "date",
   "date_estimated", "category", "severity", "pathogen", "product", "states",
   "tags", "recall_number", "classification", "recalling_firm", "status",
   "case_count", "_dedup_key"}

\* an item literal of an adapter: the properties it does not set are absent
MediaItem(r) ==
  [k \in ItemFields |->
     IF k \in DOMAIN r THEN r[k]
     ELSE IF k = "source_type" THEN "media"
     ELSE IF k \in {"date", "case_count"} THEN NoNum
     ELSE IF k = "date_estimated" THEN FALSE
     ELSE IF k \in {"states", "tags"} THEN NullList
     ELSE Null]

MapSeq(s, F(_)) == [i \in 1..Len(s) |-> F(s[i])]

Today == 3

\* cutoffDate of every adapter: since when given, else now - days
cutoffOf(opts) == IF opts.since # NoNum THEN opts.since ELSE Today - opts.days

\* new Date(x) is a valid date not before the cutoff
InWindow(day, cutoff) == day # NoNum /\ day >= cutoff

\* ------------------------------------------------- what upstreams serve

RssItem(title, description, pubDate, link) ==
  [title |-> title, description |-> description, pubDate |-> pubDate,
   link |-> link, guid |-> Null, category |-> <<>>]

\* a parsed RSS document (xml2js) or one that fails to parse
RssDoc(items) == [wellFormed |-> TRUE, items |-> items]
BadDoc == [wellFormed |-> FALSE, items |-> <<>>]

Recall(number, firm, product, reason, class, reportDate) ==
  [recall_number |-> number, recalling_firm |-> firm, product_description |-> product,
   reason_for_recall |-> reason, classification |-> class, report_date |-> reportDate,
   recall_initiation_date |-> NoNum, distribution_pattern |-> <<"C","A",","," ","N","Y"," ","a","n","d"," ","T","X">>,
   product_quantity |-> Null, status |-> <<"O","n","g","o","i","n","g">>]

\* a JSON body of the enforcement API or one that fails to parse
JsonResults(results) == [wellFormed |-> TRUE, results |-> results]
BadJson == [wellFormed |-> FALSE, results |-> <<>>]

NewsAcme ==
  RssItem(<<"A","c","m","e"," ","F","o","o","d","s"," ","r","e","c","a","l","l","s"," ","g","r","o","u","n","d"," ","b","e","e","f"," ","o","v","e","r"," ","E","."," ","c","o","l","i">>,
          <<"<","p",">","G","r","o","u","n","d"," ","b","e","e","f"," ","s","o","l","d"," ","i","n"," ","C","A"," ","&","a","m","p",";"," ","N","Y","<","/","p",">">>, 3, <<"h","t","t","p","s",":","/","/","f","s","n",".","e","x","a","m","p","l","e","/","a","c","m","e">>)
NewsDeaths ==
  RssItem(<<"T","w","o"," ","d","e","a","t","h","s"," ","i","n"," ","L","i","s","t","e","r","i","a"," ","o","u","t","b","r","e","a","k"," ","t","i","e","d"," ","t","o"," ","d","e","l","i"," ","m","e","a","t">>, <<>>, 3,
          <<"h","t","t","p","s",":","/","/","f","s","n",".","e","x","a","m","p","l","e","/","d","e","l","i">>)
NewsOld ==
  RssItem(<<"S","t","u","d","y"," ","r","e","v","i","e","w","s"," ","p","o","u","l","t","r","y"," ","h","y","g","i","e","n","e">>, <<>>, 1, <<"h","t","t","p","s",":","/","/","f","s","n",".","e","x","a","m","p","l","e","/","s","t","u","d","y">>)
NewsBare == RssItem(Null, Null, 3, Null)
\* a feed entry that repeats a category element
NewsTagged == [NewsAcme EXCEPT !.category = <<<<"R","e","c","a","l","l","s">>, <<"R","e","c","a","l","l","s">>, <<"B","e","e","f">>>>]

NewsDocs == {RssDoc(<<NewsAcme, NewsOld>>), RssDoc(<<NewsDeaths, NewsBare>>), RssDoc(<<>>)}

RecallAcme ==
  Recall(<<"F","-","1">>, <<"A","c","m","e"," ","F","o","o","d","s">>, <<"G","r","o","u","n","d"," ","B","e","e","f",";"," ","1"," ","l","b"," ","p","a","c","k">>, <<"M","a","y"," ","b","e"," ","c","o","n","t","a","m","i","n","a","t","e","d">>,
         <<"C","l","a","s","s"," ","I">>, 3)
RecallBare == Recall(Null, Null, Null, <<"S","a","l","m","o","n","e","l","l","a">>, Null, NoNum)
RecallBeta ==
  Recall(<<"F","-","2">>, <<"B","e","t","a"," ","F","a","r","m","s">>, <<"T","u","r","k","e","y"," ","S","a","u","s","a","g","e",","," ","1","2"," ","o","z">>, <<"U","n","d","e","c","l","a","r","e","d"," ","m","i","l","k">>,
         <<"C","l","a","s","s"," ","I","I","I">>, 2)

\* another recall of the firm of RecallAcme, and the same product recalled by
\* another firm
RecallAcmeMilk ==
  Recall(<<"F","-","3">>, <<"A","c","m","e"," ","F","o","o","d","s">>, <<"C","h","o","c","o","l","a","t","e"," ","M","i","l","k",";"," ","1"," ","q","t">>, <<"U","n","d","e","c","l","a","r","e","d"," ","s","o","y">>, <<"C","l","a","s","s"," ","I","I">>, 3)
RecallAlpha ==
  Recall(<<"F","-","4">>, <<"A","l","p","h","a"," ","F","o","o","d","s">>, <<"G","r","o","u","n","d"," ","B","e","e","f",";"," ","2"," ","l","b"," ","p","a","c","k">>, <<"M","a","y"," ","b","e"," ","c","o","n","t","a","m","i","n","a","t","e","d">>,
         <<"C","l","a","s","s"," ","I">>, 3)

\* two recalls of meat and egg products that have nothing in common
RecallHam ==
  Recall(<<"F","-","5">>, <<"G","a","m","m","a"," ","M","e","a","t","s">>, <<"S","m","o","k","e","d"," ","H","a","m",";"," ","2"," ","l","b">>, <<"L","i","s","t","e","r","i","a"," ","m","o","n","o","c","y","t","o","g","e","n","e","s">>,
         <<"C","l","a","s","s"," ","I">>, 3)
RecallEggs ==
  Recall(<<"F","-","6">>, <<"D","e","l","t","a"," ","F","a","r","m","s">>, <<"S","h","e","l","l"," ","E","g","g","s",";"," ","d","o","z","e","n">>, <<"S","a","l","m","o","n","e","l","l","a">>, <<"C","l","a","s","s"," ","I","I">>, 2)

EnforcementBodies ==
  {JsonResults(<<RecallAcme>>), JsonResults(<<RecallBare, RecallBeta>>), JsonResults(<<>>)}

MagLessons ==
  RssItem(<<"L","i","s","t","e","r","i","a"," ","r","e","c","a","l","l"," ","l","e","s","s","o","n","s"," ","f","o","r"," ","p","r","o","c","e","s","s","o","r","s">>, <<>>, 3, <<"h","t","t","p","s",":","/","/","f","s","m",".","e","x","a","m","p","l","e","/","a","1">>)
MagAllergen ==
  [RssItem(<<"A","l","l","e","r","g","e","n"," ","l","a","b","e","l","i","n","g"," ","s","t","u","d","y">>, <<>>, 3, Null) EXCEPT !.guid = <<"h","t","t","p","s",":","/","/","f","s","m",".","e","x","a","m","p","l","e","/","a","2">>]
MagOld == RssItem(<<"S","a","n","i","t","a","t","i","o","n"," ","b","a","s","i","c","s">>, <<>>, 1, <<"h","t","t","p","s",":","/","/","f","s","m",".","e","x","a","m","p","l","e","/","a","3">>)
\* an item with neither <link> nor <guid>
MagNoLink == RssItem(<<"E","d","i","t","o","r","'","s"," ","n","o","t","e">>, <<>>, 3, Null)

\* the document each topic feed serves when it answers
TopicFeed(topicId) ==
  CASE topicId = 305 -> RssDoc(<<MagLessons, MagOld>>)
    [] topicId = 306 -> RssDoc(<<MagAllergen, MagLessons>>)
    [] topicId = 309 -> RssDoc(<<MagNoLink, MagAllergen>>)
    [] OTHER -> RssDoc(<<>>)

FsisRow(cells, href, text, day) ==
  [cells |-> cells, hasLink |-> href # Null, link |-> [href |-> href, text |-> text],
   date |-> day]

\* a fetched listing page: the recalls of the settings it embeds (the day of
\* each), and its table rows
FsisPages ==
  {[embedded |-> <<>>,
    rows |-> <<FsisRow(3, <<"/","r","e","c","a","l","l","s","/","a","c","m","e">>, <<"<","s","p","a","n",">","A","c","m","e"," ","F","o","o","d","s"," ","R","e","c","a","l","l","s"," ","G","r","o","u","n","d"," ","B","e","e","f","<","/","s","p","a","n",">">>, 3),
               FsisRow(2, <<"/","a","b","o","u","t">>, <<"A","b","o","u","t">>, 3)>>],
   [embedded |-> <<[date |-> 3], [date |-> 1]>>, rows |-> <<>>],
   [embedded |-> <<>>, rows |-> <<FsisRow(3, <<"/","r","e","c","a","l","l","s","/","o","l","d">>, <<"O","l","d"," ","r","e","c","a","l","l">>, 1)>>]}

MediaRecord(id, name, description, published, modified, url) ==
  [id |-> id, name |-> name, description |-> description, datePublished |-> published,
   dateModified |-> modified, sourceUrl |-> url, targetUrl |-> Null]

MediaEggs ==
  MediaRecord(1, <<"S","a","l","m","o","n","e","l","l","a"," ","O","u","t","b","r","e","a","k"," ","L","i","n","k","e","d"," ","t","o"," ","E","g","g","s">>, <<"1","2"," ","p","e","o","p","l","e"," ","s","i","c","k"," ","i","n"," ","C","A">>, 3, NoNum,
              <<"h","t","t","p","s",":","/","/","c","d","c",".","e","x","a","m","p","l","e","/","e","g","g","s">>)
MediaSwim == MediaRecord(2, <<"H","e","a","l","t","h","y"," ","s","w","i","m","m","i","n","g"," ","t","i","p","s">>, <<>>, 3, NoNum, Null)
MediaOld == MediaRecord(3, <<"L","i","s","t","e","r","i","a"," ","i","n","v","e","s","t","i","g","a","t","i","o","n"," ","u","p","d","a","t","e">>, <<>>, 3, 1, Null)
MediaEggsUpdate ==
  MediaRecord(4, <<"S","a","l","m","o","n","e","l","l","a"," ","o","u","t","b","r","e","a","k"," ","l","i","n","k","e","d"," ","t","o"," ","e","g","g","s",":"," ","u","p","d","a","t","e">>,
              <<"0"," ","p","e","o","p","l","e"," ","s","i","c","k",","," ","2"," ","h","o","s","p","i","t","a","l","i","z","e","d"," ","i","n"," ","N","Y">>, 3, NoNum,
              <<"h","t","t","p","s",":","/","/","c","d","c",".","e","x","a","m","p","l","e","/","e","g","g","s","-","u","p","d","a","t","e">>)

\* the body each of the three media queries serves when it answers
MediaBody(i) ==
  CASE i = 1 -> JsonResults(<<MediaEggs, MediaSwim>>)
    [] i = 2 -> JsonResults(<<MediaEggs, MediaOld>>)
    [] OTHER -> JsonResults(<<>>)

Anchor(href, inner) == [href |-> href, inner |-> inner]

\* the anchors each of the four listing pages serves when it answers
PageAnchors(i) ==
  CASE i = 1 -> <<Anchor(<<"/">>, <<"H","o","m","e">>)>>
    [] i = 2 -> <<Anchor(<<"/","o","u","t","b","r","e","a","k","s","/","d","e","l","i">>, <<"<","b",">","L","i","s","t","e","r","i","a"," ","O","u","t","b","r","e","a","k","<","/","b",">"," ","L","i","n","k","e","d"," ","t","o"," ","D","e","l","i"," ","M","e","a","t","s">>)>>
    [] OTHER -> <<Anchor(<<"h","t","t","p","s",":","/","/","w","w","w",".","c","d","c",".","g","o","v","/","x">>, <<"E","."," ","c","o","l","i"," ","I","n","v","e","s","t","i","g","a","t","i","o","n"," ","N","o","t","i","c","e">>)>>

\* the document each of the two outbreak feeds serves when it answers
CdcFeed(i) ==
  IF i = 1 THEN RssDoc(<<RssItem(<<"S","a","l","m","o","n","e","l","l","a"," ","o","u","t","b","r","e","a","k"," ","l","i","n","k","e","d"," ","t","o"," ","e","g","g","s">>, <<>>, 3,
                                 <<"h","t","t","p","s",":","/","/","c","d","c",".","e","x","a","m","p","l","e","/","r","s","s","1">>)>>)
  ELSE RssDoc(<<RssItem(<<"F","o","o","d","b","o","r","n","e"," ","i","l","l","n","e","s","s"," ","p","o","d","c","a","s","t">>, <<>>, 3, <<"h","t","t","p","s",":","/","/","c","d","c",".","e","x","a","m","p","l","e","/","r","s","s","2">>)>>)

RssDeli ==
  RssItem(<<"L","i","s","t","e","r","i","a"," ","o","u","t","b","r","e","a","k"," ","t","i","e","d"," ","t","o"," ","d","e","l","i"," ","m","e","a","t","s"," ","g","r","o","w","s">>, <<>>, 3, <<"h","t","t","p","s",":","/","/","c","d","c",".","e","x","a","m","p","l","e","/","d","e","l","i">>)

\* ------------------------------------------------ news adapter (one feed)

newsArticle(item) ==
  LET title == stripHtml(item.title)
      description == stripHtml(item.description)
      categories == item.category
  IN MediaItem(
       [sources |-> <<<<"F","o","o","d"," ","S","a","f","e","t","y"," ","N","e","w","s">>>>,
        source_urls |-> <<item.link>>,
        title |-> title,
        summary |-> description,
        date |-> item.pubDate,
        category |-> categorizeArticle(title, description, categories),
        severity |-> determineSeverity(title, description),
        pathogen |-> extractPathogen(title \o <<" ">> \o description),
        tags |-> categories,
        _dedup_key |-> dedupKeyOf(title)])

\* the parseString callback of fetchFoodSafetyNews on a well-formed document
newsArticles(doc, cutoff) ==
  MapSeq(SelectSeq(doc.items, LAMBDA item : InWindow(item.pubDate, cutoff)), newsArticle)

\* ------------------------------------------------ recall REST adapter

Quote == <<"\"">>

fdaRecallUrl(recall_number) ==
  <<"h","t","t","p","s",":","/","/","a","p","i",".","f","d","a",".","g","o","v","/","f","o","o","d","/","e","n","f","o","r","c","e","m","e","n","t",".","j","s","o","n","?","s","e","a","r","c","h","=","r","e","c","a","l","l","_","n","u","m","b","e","r",":">>
    \o Quote \o (IF recall_number = Null THEN <<"u","n","d","e","f","i","n","e","d">> ELSE recall_number) \o Quote

\* formatDate: a well-formed YYYYMMDD is its day, anything else is null
formatDate(day) == IF day = NoNum THEN NoNum ELSE day

OrNum(x, y) == IF TruthyNum(x) THEN x ELSE y
OrStr(x, y) == IF TruthyStr(x) THEN x ELSE y

fdaRecallItem(recall) ==
  LET reportDate == formatDate(recall.report_date)
      recallDate == formatDate(recall.recall_initiation_date)
      reason == OrStr(recall.reason_for_recall, <<>>)
      product == extractProduct(recall.product_description)
      firm == OrStr(recall.recalling_firm, <<"U","n","k","n","o","w","n"," ","F","i","r","m">>)
      classLabel == OrStr(recall.classification, <<>>)
      title == firm \o <<" ","R","e","c","a","l","l","s"," ">> \o OrStr(product, <<"P","r","o","d","u","c","t">>)
                 \o <<" ","(">> \o classLabel \o <<")">>
      summaryParts ==
        <<reason>>
          \o (IF TruthyStr(recall.distribution_pattern)
              THEN <<<<"D","i","s","t","r","i","b","u","t","i","o","n",":"," ">> \o recall.distribution_pattern>> ELSE <<>>)
          \o (IF TruthyStr(recall.product_quantity)
              THEN <<<<"Q","u","a","n","t","i","t","y",":"," ">> \o recall.product_quantity>> ELSE <<>>)
  IN MediaItem(
       [sources |-> <<<<"F","D","A">>>>,
        source_urls |-> <<fdaRecallUrl(recall.recall_number)>>,
        title |-> title,
        summary |-> Join(summaryParts, <<" ","|"," ">>),
        date |-> OrNum(reportDate, OrNum(recallDate, Today)),
        category |-> "Recall",
        severity |-> classificationToSeverity(recall.classification),
        pathogen |-> extractPathogen(reason),
        product |-> product,
        states |-> extractStates(recall.distribution_pattern),
        recall_number |-> recall.recall_number,
        classification |-> recall.classification,
        recalling_firm |-> firm,
        status |-> recall.status,
        _dedup_key |-> dedupKeyOf(OrStr(recall.recall_number, title))])

\* the body of fetchFDARecalls after a parsed response
fdaRecalls(response) == MapSeq(response.results, fdaRecallItem)

\* ------------------------------------------------ magazine adapter

TOPIC_IDS == <<305, 306, 309, 311, 312, 313>>

DEFAULT_TOPICS ==
  (305 :> "Recall") @@ (306 :> "Research") @@ (309 :> "Alert")
    @@ (311 :> "Alert") @@ (312 :> "Research") @@ (313 :> "Alert")

TOPIC_NAMES ==
  (305 :> <<"R","e","c","a","l","l","/","C","r","i","s","i","s">>) @@ (306 :> <<"R","i","s","k"," ","A","s","s","e","s","s","m","e","n","t">>) @@ (309 :> <<"C","h","e","m","i","c","a","l">>)
    @@ (311 :> <<"A","l","l","e","r","g","e","n">>) @@ (312 :> <<"M","i","c","r","o","b","i","o","l","o","g","i","c","a","l">>) @@ (313 :> <<"P","h","y","s","i","c","a","l">>)

magazineArticle(item, link, topicId) ==
  LET title == stripHtml(item.title)
      description == stripHtml(item.description)
  IN MediaItem(
       [sources |-> <<<<"F","o","o","d"," ","S","a","f","e","t","y"," ","M","a","g","a","z","i","n","e">>>>,
        source_urls |-> <<link>>,
        title |-> title,
        summary |-> description,
        date |-> item.pubDate,
        category |-> IF topicId \in DOMAIN DEFAULT_TOPICS THEN DEFAULT_TOPICS[topicId]
                     ELSE "Research",
        severity |-> determineSeverity(title, description),
        pathogen |-> extractPathogen(title \o <<" ">> \o description),
        tags |-> <<IF topicId \in DOMAIN TOPIC_NAMES THEN TOPIC_NAMES[topicId] ELSE <<"T","o","p","i","c">>>>,
        _dedup_key |-> dedupKeyOf(title)])

RECURSIVE magazineFeed_noSeenUrls(_, _, _, _)
magazineFeed_noSeenUrls(acc, items, topicId, cutoff) ==
  IF items = <<>> THEN acc
  ELSE LET item == Head(items)
           link == OrStr(item.link, item.guid)
           skip == \/ ~InWindow(item.pubDate, cutoff)
                   \/ ~TruthyStr(link)
       IN magazineFeed_noSeenUrls(
            IF skip THEN acc
            ELSE <<acc[1] \cup {link}, Append(acc[2], magazineArticle(item, link, topicId))>>,
            Tail(items), topicId, cutoff)

\* the loop over the items of one parsed topic feed: acc is the pair
\* <<seenUrls, allArticles>> the topic callbacks share
RECURSIVE magazineFeed(_, _, _, _)
magazineFeed(acc, items, topicId, cutoff) ==
  IF items = <<>> THEN acc
  ELSE LET item == Head(items)
           link == OrStr(item.link, item.guid)
           skip == \/ ~InWindow(item.pubDate, cutoff)
                   \/ ~TruthyStr(link)
                   \/ link \in acc[1]
       IN magazineFeed(
            IF skip THEN acc
            ELSE <<acc[1] \cup {link}, Append(acc[2], magazineArticle(item, link, topicId))>>,
            Tail(items), topicId, cutoff)

\* ------------------------------------- recall scrape-with-fallback adapter

FSIS_PATHOGENS == SubSeq(PATHOGENS, 1, 15)

FSIS_PRODUCTS ==
  {<<"m","e","a","t">>, <<"b","e","e","f">>, <<"p","o","r","k">>, <<"c","h","i","c","k","e","n">>, <<"t","u","r","k","e","y">>, <<"p","o","u","l","t","r","y">>, <<"e","g","g">>,
   <<"s","a","u","s","a","g","e">>, <<"b","a","c","o","n">>, <<"h","a","m">>, <<"d","e","l","i">>, <<"h","o","t"," ","d","o","g">>, <<"g","r","o","u","n","d"," ","b","e","e","f">>,
   <<"g","r","o","u","n","d"," ","t","u","r","k","e","y">>, <<"g","r","o","u","n","d"," ","c","h","i","c","k","e","n">>, <<"j","e","r","k","y">>, <<"l","a","m","b">>, <<"v","e","a","l">>,
   <<"d","u","c","k">>, <<"g","o","o","s","e">>, <<"b","i","s","o","n">>, <<"v","e","n","i","s","o","n">>, <<"r","a","b","b","i","t">>}

isFSISProduct(text) == TruthyStr(text) /\ AnyIncluded(toLowerCase(text), FSIS_PRODUCTS)

StartsWith(s, p) == HasAt(s, 1, p)

\* one <tr> of the listing page: its number of <td> cells, its first anchor
\* (href, text) or null, and the day of its first m/d/yyyy date or none
fsisRowItem(row) ==
  LET title == Trim(StripTags(row.link.text))
      url == IF StartsWith(row.link.href, <<"h","t","t","p">>) THEN row.link.href
             ELSE <<"h","t","t","p","s",":","/","/","w","w","w",".","f","s","i","s",".","u","s","d","a",".","g","o","v">> \o row.link.href
  IN MediaItem(
       [sources |-> <<<<"U","S","D","A"," ","F","S","I","S">>>>,
        source_urls |-> <<url>>,
        title |-> title,
        summary |-> title,
        date |-> row.date,
        category |-> "Recall",
        severity |-> "medium",
        pathogen |-> extractPathogenFrom(FSIS_PATHOGENS, title),
        _dedup_key |-> dedupKeyOf(title)])

\* tryScrapeFSIS on a fetched page: the recalls of its table rows; the caller
\* treats the null it returns for none as it treats [], so none is <<>> here.
\* The embedded-settings branch calls
\* parseEmbeddedRecalls, which the file does not define: the call throws inside
\* the inner try, whose catch falls through to the table rows, as invalid JSON
\* and settings without recalls do
scrapeFSISPage(page, cutoff) ==
  LET rows == SelectSeq(page.rows,
                LAMBDA row : /\ row.cells >= 3
                             /\ row.hasLink /\ row.date # NoNum
                             /\ row.date >= cutoff)
      recalls == MapSeq(rows, fsisRowItem)
  IN recalls

fsisFallbackItem(recall) ==
  LET reportDate == formatDate(recall.report_date)
      product == OrStr(IF recall.product_description = Null THEN Null
                       ELSE Trim(BeforeChar(BeforeChar(recall.product_description, ";"), ",")),
                       <<"U","n","k","n","o","w","n"," ","P","r","o","d","u","c","t">>)
      reason == OrStr(recall.reason_for_recall, <<>>)
      firm == OrStr(recall.recalling_firm, <<"U","n","k","n","o","w","n"," ","F","i","r","m">>)
  IN MediaItem(
       [sources |-> <<<<"U","S","D","A"," ","F","S","I","S">>, <<"F","D","A">>>>,
        source_urls |-> <<<<"h","t","t","p","s",":","/","/","w","w","w",".","f","s","i","s",".","u","s","d","a",".","g","o","v","/","r","e","c","a","l","l","s","-","a","l","e","r","t","s">>,
                          fdaRecallUrl(recall.recall_number)>>,
        title |-> firm \o <<" ","R","e","c","a","l","l","s"," ">> \o Prefix(product, 80) \o <<" ","(">>
                    \o OrStr(recall.classification, <<"U","n","c","l","a","s","s","i","f","i","e","d">>) \o <<")">>,
        summary |-> reason \o <<" ","|"," ","D","i","s","t","r","i","b","u","t","i","o","n",":"," ">>
                      \o OrStr(recall.distribution_pattern, <<"U","n","k","n","o","w","n">>),
        date |-> OrNum(reportDate, Today),
        category |-> "Recall",
        severity |-> classificationToSeverity(recall.classification),
        pathogen |-> extractPathogenFrom(FSIS_PATHOGENS, reason),
        product |-> Prefix(product, ProductLen),
        states |-> extractStates(recall.distribution_pattern),
        recall_number |-> recall.recall_number,
        classification |-> recall.classification,
        recalling_firm |-> firm,
        _dedup_key |-> dedupKeyOf(OrStr(recall.recall_number, <<>>))])

\* the body of tryOpenFDAFallback after a parsed response
fsisFallbackRecalls(response) ==
  MapSeq(SelectSeq(response.results,
                   LAMBDA r : isFSISProduct(r.product_description)
                                \/ isFSISProduct(r.reason_for_recall)),
         fsisFallbackItem)

\* ------------------------------------------------------ outbreak adapter

\* /food.?safety/ on a lowercased text
HasFoodSafety(lower) ==
  \E i \in 1..Len(lower) :
    /\ HasAt(lower, i, <<"f","o","o","d">>)
    /\ \/ HasAt(lower, i + 4, <<"s","a","f","e","t","y">>)
       \/ i + 4 <= Len(lower) /\ lower[i + 4] # "\n" /\ HasAt(lower, i + 5, <<"s","a","f","e","t","y">>)

\* /e\.\s*coli/ on a lowercased text
HasEColi(lower) ==
  \E i \in 1..Len(lower) : HasAt(lower, i, <<"e",".">>) /\ HasAt(lower, SkipWs(lower, i + 2), <<"c","o","l","i">>)

cdcMediaRelevant(text) ==
  LET lower == toLowerCase(text)
  IN \/ AnyIncluded(lower, {<<"o","u","t","b","r","e","a","k">>, <<"r","e","c","a","l","l">>, <<"f","o","o","d","b","o","r","n","e">>, <<"i","n","v","e","s","t","i","g","a","t","i","o","n">>,
                            <<"i","l","l","n","e","s","s">>, <<"c","o","n","t","a","m","i","n","a">>})
     \/ HasFoodSafety(lower)

cdcRssRelevant(text) ==
  LET lower == toLowerCase(text)
  IN \/ AnyIncluded(lower, {<<"o","u","t","b","r","e","a","k">>, <<"r","e","c","a","l","l">>, <<"f","o","o","d","b","o","r","n","e">>, <<"i","n","v","e","s","t","i","g","a","t","i","o","n">>,
                            <<"i","l","l","n","e","s","s">>})
     \/ HasFoodSafety(lower)

cdcPageRelevant(text) ==
  LET lower == toLowerCase(text)
  IN /\ \/ AnyIncluded(lower, {<<"o","u","t","b","r","e","a","k">>, <<"i","n","v","e","s","t","i","g","a","t","i","o","n">>, <<"s","a","l","m","o","n","e","l","l","a">>, <<"l","i","s","t","e","r","i","a">>})
        \/ HasEColi(lower)
     /\ Len(text) > 15

\* modDate || pubDate of a media record
cdcBestDate(item) == OrNum(item.dateModified, item.datePublished)

cdcMediaItem(item) ==
  LET title == stripHtml(item.name)
      description == stripHtml(item.description)
      text == title \o <<" ">> \o description
  IN MediaItem(
       [sources |-> <<<<"C","D","C">>>>,
        source_urls |-> <<OrStr(item.sourceUrl, OrStr(item.targetUrl, <<"h","t","t","p","s",":","/","/","w","w","w",".","c","d","c",".","g","o","v","/">>))>>,
        title |-> title,
        summary |-> description,
        date |-> cdcBestDate(item),
        category |-> "Outbreak",
        severity |-> determineSeverityCDC(text),
        pathogen |-> extractPathogen(text),
        states |-> extractStates(text),
        case_count |-> extractCaseCount(text),
        _dedup_key |-> dedupKeyOf(title)])

\* the relevance test and the item of each record the media API serves,
\* evaluated once
MediaRecords == UNION {ToSet(MediaBody(i).results) : i \in 1..3}
cdcMediaBuilt ==
  [item \in MediaRecords |->
     [relevant |-> cdcMediaRelevant(stripHtml(item.name) \o <<" ">> \o stripHtml(item.description)),
      item |-> cdcMediaItem(item)]]

\* the loop of tryCDCMediaAPI over the results of one query: acc is the pair
\* <<seenIds, allItems>> carried across the queries
RECURSIVE cdcMediaResults(_, _, _)
cdcMediaResults(acc, results, cutoff) ==
  IF results = <<>> THEN acc
  ELSE LET item == Head(results)
       IN cdcMediaResults(
            IF item.id \in acc[1] THEN acc
            ELSE IF ~InWindow(cdcBestDate(item), cutoff) \/ ~cdcMediaBuilt[item].relevant
                 THEN <<acc[1] \cup {item.id}, acc[2]>>
                 ELSE <<acc[1] \cup {item.id}, Append(acc[2], cdcMediaBuilt[item].item)>>,
            Tail(results), cutoff)

\* one anchor (href, inner html) of a listing page
cdcPageItem(anchor) ==
  LET text == stripHtml(anchor.inner)
      fullUrl == IF StartsWith(anchor.href, <<"h","t","t","p">>) THEN anchor.href
                 ELSE <<"h","t","t","p","s",":","/","/","w","w","w",".","c","d","c",".","g","o","v">> \o anchor.href
  IN MediaItem(
       [sources |-> <<<<"C","D","C">>>>,
        source_urls |-> <<fullUrl>>,
        title |-> text,
        summary |-> text,
        date |-> NoNum,
        date_estimated |-> TRUE,
        category |-> "Outbreak",
        severity |-> determineSeverityCDC(text),
        pathogen |-> extractPathogen(text),
        states |-> extractStates(text),
        _dedup_key |-> dedupKeyOf(text)])

\* the link test and the item of each anchor the listing pages serve,
\* evaluated once
PageLinks == UNION {ToSet(PageAnchors(i)) : i \in 1..4}
cdcPageBuilt ==
  [a \in PageLinks |->
     [relevant |-> cdcPageRelevant(stripHtml(a.inner)), item |-> cdcPageItem(a)]]

\* the outbreak links tryCDCOutbreakPages extracts from one fetched page
cdcPageOutbreaks(anchors) ==
  LET links == SelectSeq(anchors, LAMBDA a : cdcPageBuilt[a].relevant)
  IN [i \in 1..Len(links) |-> cdcPageBuilt[links[i]].item]

cdcRssItem(item) ==
  LET title == stripHtml(item.title)
      description == stripHtml(item.description)
      text == title \o <<" ">> \o description
  IN MediaItem(
       [sources |-> <<<<"C","D","C">>>>,
        source_urls |-> <<item.link>>,
        title |-> title,
        summary |-> description,
        date |-> item.pubDate,
        category |-> "Outbreak",
        severity |-> determineSeverityCDC(text),
        pathogen |-> extractPathogen(text),
        states |-> extractStates(text),
        _dedup_key |-> dedupKeyOf(title)])

\* the relevance test and the item of each entry the outbreak feeds serve,
\* evaluated once
FeedEntries == UNION {ToSet(CdcFeed(i).items) : i \in 1..2}
cdcRssBuilt ==
  [item \in FeedEntries |->
     [relevant |-> cdcRssRelevant(stripHtml(item.title) \o <<" ">> \o stripHtml(item.description)),
      item |-> cdcRssItem(item)]]

\* the parseString callback of tryCDCRSS: a parse error resolves with []
cdcRssItems(doc, cutoff) ==
  IF ~doc.wellFormed THEN <<>>
  ELSE LET kept == SelectSeq(doc.items,
                     LAMBDA item : InWindow(item.pubDate, cutoff) /\ cdcRssBuilt[item].relevant)
       IN [i \in 1..Len(kept) |-> cdcRssBuilt[kept[i]].item]

\* the first item of each _dedup_key, in order
RECURSIVE UniqByKey(_, _)
UniqByKey(items, seen) ==
  IF items = <<>> THEN <<>>
  ELSE IF Head(items)._dedup_key \in seen THEN UniqByKey(Tail(items), seen)
  ELSE <<Head(items)>> \o UniqByKey(Tail(items), seen \cup {Head(items)._dedup_key})

cdcCombine_keepsUndated(opts, mediaItems, pageItems, rssItems) ==
  UniqByKey(mediaItems \o pageItems \o rssItems, {})

\* fetchCDCOutbreaks after the three strategies have returned
cdcCombine(opts, mediaItems, pageItems, rssItems) ==
  LET filteredPageItems ==
        IF opts.since = NoNum /\ opts.days <= 1
        THEN SelectSeq(pageItems, LAMBDA i : TruthyNum(i.date))
        ELSE pageItems
  IN UniqByKey(mediaItems \o filteredPageItems \o rssItems, {})

\* ------------------------------------------------- similarity and dedup

\* the word set of textSimilarity
wordsOf(s) ==
  LET kept == SelectSeq(toLowerCase(s),
                        LAMBDA c : c \in LowerLetters \cup Digits \/ IsSpace(c))
  IN {w \in ToSet(SplitWs(kept)) : Len(w) > 2}

MinOf(x, y) == IF x < y THEN x ELSE y

textSimilarity_largerSet(a, b) ==
  IF ~TruthyStr(a) \/ ~TruthyStr(b) THEN <<0, 1>>
  ELSE LET wordsA == wordsOf(a)
           wordsB == wordsOf(b)
       IN IF wordsA = {} \/ wordsB = {} THEN <<0, 1>>
          ELSE <<Cardinality(wordsA \cap wordsB),
                 IF Cardinality(wordsA) < Cardinality(wordsB)
                 THEN Cardinality(wordsB) ELSE Cardinality(wordsA)>>

\* textSimilarity returns the quotient intersection / min as the pair
\* <<numerator, denominator>>; 0 is <<0, 1>>
textSimilarity(a, b) ==
  IF ~TruthyStr(a) \/ ~TruthyStr(b) THEN <<0, 1>>
  ELSE LET wordsA == wordsOf(a)
           wordsB == wordsOf(b)
       IN IF wordsA = {} \/ wordsB = {} THEN <<0, 1>>
          ELSE <<Cardinality(wordsA \cap wordsB),
                 MinOf(Cardinality(wordsA), Cardinality(wordsB))>>

\* q > n/d for a quotient q = <<numerator, denominator>>
Exceeds(q, n, d) == q[1] * d > n * q[2]

areDuplicates_firstUrlOnly(a, b) ==
  \/ TruthyStr(a.recall_number) /\ TruthyStr(b.recall_number)
       /\ a.recall_number = b.recall_number
  \/ Len(OrElse(b.source_urls, <<>>)) > 0
       /\ OrElse(b.source_urls, <<>>)[1] \in ToSet(OrElse(a.source_urls, <<>>))
  \/ TruthyStr(a._dedup_key) /\ TruthyStr(b._dedup_key)
       /\ a._dedup_key = b._dedup_key
  \/ /\ TruthyStr(a.pathogen) /\ TruthyStr(b.pathogen) /\ a.pathogen = b.pathogen
     /\ TruthyStr(a.product) /\ TruthyStr(b.product)
     /\ Exceeds(textSimilarity(a.product, b.product), 1, 2)
  \/ Exceeds(textSimilarity(a.title, b.title), 3, 5)
  \/ /\ TruthyStr(a.recalling_firm) /\ TruthyStr(b.recalling_firm)
     /\ toLowerCase(a.recalling_firm) = toLowerCase(b.recalling_firm)

areDuplicates_titleAtLeast(a, b) ==
  \/ TruthyStr(a.recall_number) /\ TruthyStr(b.recall_number)
       /\ a.recall_number = b.recall_number
  \/ \E i \in 1..Len(OrElse(b.source_urls, <<>>)) :
        OrElse(b.source_urls, <<>>)[i] \in ToSet(OrElse(a.source_urls, <<>>))
  \/ TruthyStr(a._dedup_key) /\ TruthyStr(b._dedup_key)
       /\ a._dedup_key = b._dedup_key
  \/ /\ TruthyStr(a.pathogen) /\ TruthyStr(b.pathogen) /\ a.pathogen = b.pathogen
     /\ TruthyStr(a.product) /\ TruthyStr(b.product)
     /\ Exceeds(textSimilarity(a.product, b.product), 1, 2)
  \/ ~Exceeds(<<3, 5>>, textSimilarity(a.title, b.title)[1],
              textSimilarity(a.title, b.title)[2])
  \/ /\ TruthyStr(a.recalling_firm) /\ TruthyStr(b.recalling_firm)
     /\ toLowerCase(a.recalling_firm) = toLowerCase(b.recalling_firm)

areDuplicates(a, b) ==
  \/ TruthyStr(a.recall_number) /\ TruthyStr(b.recall_number)
       /\ a.recall_number = b.recall_number
  \/ \E i \in 1..Len(OrElse(b.source_urls, <<>>)) :
        OrElse(b.source_urls, <<>>)[i] \in ToSet(OrElse(a.source_urls, <<>>))
  \/ TruthyStr(a._dedup_key) /\ TruthyStr(b._dedup_key)
       /\ a._dedup_key = b._dedup_key
  \/ /\ TruthyStr(a.pathogen) /\ TruthyStr(b.pathogen) /\ a.pathogen = b.pathogen
     /\ TruthyStr(a.product) /\ TruthyStr(b.product)
     /\ Exceeds(textSimilarity(a.product, b.product), 1, 2)
  \/ Exceeds(textSimilarity(a.title, b.title), 3, 5)
  \/ /\ TruthyStr(a.recalling_firm) /\ TruthyStr(b.recalling_firm)
     /\ toLowerCase(a.recalling_firm) = toLowerCase(b.recalling_firm)

\* severityOrder of mergeItems: { high: 3, medium: 2, low: 1 }, || 0
mergeRank(sev) ==
  CASE sev = "high" -> 3 [] sev = "medium" -> 2 [] sev = "low" -> 1 [] OTHER -> 0

mergeItems_keepsSeverity(primary, secondary) ==
  [primary EXCEPT
     !.sources = Uniq(OrElse(primary.sources, <<>>) \o OrElse(secondary.sources, <<>>)),
     !.source_urls =
        Uniq(OrElse(primary.source_urls, <<>>) \o OrElse(secondary.source_urls, <<>>)),
     !.pathogen = IF ~TruthyStr(@) /\ TruthyStr(secondary.pathogen)
                  THEN secondary.pathogen ELSE @]

mergeItems_primaryUrls(primary, secondary) ==
  [primary EXCEPT
     !.sources = Uniq(OrElse(primary.sources, <<>>) \o OrElse(secondary.sources, <<>>)),
     !.source_urls = OrElse(primary.source_urls, <<>>),
     !.pathogen = IF ~TruthyStr(@) /\ TruthyStr(secondary.pathogen)
                  THEN secondary.pathogen ELSE @,
     !.product = IF ~TruthyStr(@) /\ TruthyStr(secondary.product)
                 THEN secondary.product ELSE @,
     !.states = IF ~TruthyArr(@) /\ TruthyArr(secondary.states)
                THEN secondary.states ELSE @,
     !.recall_number = IF ~TruthyStr(@) /\ TruthyStr(secondary.recall_number)
                       THEN secondary.recall_number ELSE @,
     !.classification = IF ~TruthyStr(@) /\ TruthyStr(secondary.classification)
                        THEN secondary.classification ELSE @,
     !.case_count = IF ~TruthyNum(@) /\ TruthyNum(secondary.case_count)
                    THEN secondary.case_count ELSE @,
     !.recalling_firm = IF ~TruthyStr(@) /\ TruthyStr(secondary.recalling_firm)
                        THEN secondary.recalling_firm ELSE @,
     !.summary = IF TruthyStr(secondary.summary)
                    /\ Len(secondary.summary) > Len(IF TruthyStr(@) THEN @ ELSE <<>>)
                 THEN secondary.summary ELSE @,
     !.severity = IF mergeRank(secondary.severity) > mergeRank(@)
                  THEN secondary.severity ELSE @,
     !.tags = IF TruthyArr(secondary.tags)
              THEN Uniq(OrElse(@, <<>>) \o secondary.tags) ELSE @]

\* the elements that occur once in s
OnlySingles(s) == SelectSeq(s, LAMBDA x : Cardinality({i \in 1..Len(s) : s[i] = x}) = 1)

mergeItems_onlySingles(primary, secondary) ==
  [primary EXCEPT
     !.sources = OnlySingles(OrElse(primary.sources, <<>>) \o OrElse(secondary.sources, <<>>)),
     !.source_urls =
        OnlySingles(OrElse(primary.source_urls, <<>>) \o OrElse(secondary.source_urls, <<>>)),
     !.pathogen = IF ~TruthyStr(@) /\ TruthyStr(secondary.pathogen)
                  THEN secondary.pathogen ELSE @,
     !.product = IF ~TruthyStr(@) /\ TruthyStr(secondary.product)
                 THEN secondary.product ELSE @,
     !.states = IF ~TruthyArr(@) /\ TruthyArr(secondary.states)
                THEN secondary.states ELSE @,
     !.recall_number = IF ~TruthyStr(@) /\ TruthyStr(secondary.recall_number)
                       THEN secondary.recall_number ELSE @,
     !.classification = IF ~TruthyStr(@) /\ TruthyStr(secondary.classification)
                        THEN secondary.classification ELSE @,
     !.case_count = IF ~TruthyNum(@) /\ TruthyNum(secondary.case_count)
                    THEN secondary.case_count ELSE @,
     !.recalling_firm = IF ~TruthyStr(@) /\ TruthyStr(secondary.recalling_firm)
                        THEN secondary.recalling_firm ELSE @,
     !.summary = IF TruthyStr(secondary.summary)
                    /\ Len(secondary.summary) > Len(IF TruthyStr(@) THEN @ ELSE <<>>)
                 THEN secondary.summary ELSE @,
     !.severity = IF mergeRank(secondary.severity) > mergeRank(@)
                  THEN secondary.severity ELSE @,
     !.tags = IF TruthyArr(secondary.tags)
              THEN OnlySingles(OrElse(@, <<>>) \o secondary.tags) ELSE @]

mergeItems_secondaryWins(primary, secondary) ==
  [primary EXCEPT
     !.sources = Uniq(OrElse(primary.sources, <<>>) \o OrElse(secondary.sources, <<>>)),
     !.source_urls =
        Uniq(OrElse(primary.source_urls, <<>>) \o OrElse(secondary.source_urls, <<>>)),
     !.pathogen = IF ~TruthyStr(@) /\ TruthyStr(secondary.pathogen)
                  THEN secondary.pathogen ELSE @,
     !.product = IF ~TruthyStr(@) /\ TruthyStr(secondary.product)
                 THEN secondary.product ELSE @,
     !.states = IF TruthyArr(secondary.states)
                THEN secondary.states ELSE @,
     !.recall_number = IF ~TruthyStr(@) /\ TruthyStr(secondary.recall_number)
                       THEN secondary.recall_number ELSE @,
     !.classification = IF ~TruthyStr(@) /\ TruthyStr(secondary.classification)
                        THEN secondary.classification ELSE @,
     !.case_count = IF ~TruthyNum(@) /\ TruthyNum(secondary.case_count)
                    THEN secondary.case_count ELSE @,
     !.recalling_firm = IF ~TruthyStr(@) /\ TruthyStr(secondary.recalling_firm)
                        THEN secondary.recalling_firm ELSE @,
     !.summary = IF TruthyStr(secondary.summary)
                    /\ Len(secondary.summary) > Len(IF TruthyStr(@) THEN @ ELSE <<>>)
                 THEN secondary.summary ELSE @,
     !.severity = IF mergeRank(secondary.severity) > mergeRank(@)
                  THEN secondary.severity ELSE @,
     !.tags = IF TruthyArr(secondary.tags)
              THEN Uniq(OrElse(@, <<>>) \o secondary.tags) ELSE @]

mergeItems_lowerSeverity(primary, secondary) ==
  [primary EXCEPT
     !.sources = Uniq(OrElse(primary.sources, <<>>) \o OrElse(secondary.sources, <<>>)),
     !.source_urls =
        Uniq(OrElse(primary.source_urls, <<>>) \o OrElse(secondary.source_urls, <<>>)),
     !.pathogen = IF ~TruthyStr(@) /\ TruthyStr(secondary.pathogen)
                  THEN secondary.pathogen ELSE @,
     !.product = IF ~TruthyStr(@) /\ TruthyStr(secondary.product)
                 THEN secondary.product ELSE @,
     !.states = IF ~TruthyArr(@) /\ TruthyArr(secondary.states)
                THEN secondary.states ELSE @,
     !.recall_number = IF ~TruthyStr(@) /\ TruthyStr(secondary.recall_number)
                       THEN secondary.recall_number ELSE @,
     !.classification = IF ~TruthyStr(@) /\ TruthyStr(secondary.classification)
                        THEN secondary.classification ELSE @,
     !.case_count = IF ~TruthyNum(@) /\ TruthyNum(secondary.case_count)
                    THEN secondary.case_count ELSE @,
     !.recalling_firm = IF ~TruthyStr(@) /\ TruthyStr(secondary.recalling_firm)
                        THEN secondary.recalling_firm ELSE @,
     !.summary = IF TruthyStr(secondary.summary)
                    /\ Len(secondary.summary) > Len(IF TruthyStr(@) THEN @ ELSE <<>>)
                 THEN secondary.summary ELSE @,
     !.severity = IF mergeRank(secondary.severity) < mergeRank(@)
                  THEN secondary.severity ELSE @,
     !.tags = IF TruthyArr(secondary.tags)
              THEN Uniq(OrElse(@, <<>>) \o secondary.tags) ELSE @]

mergeItems_fillsDate(primary, secondary) ==
  [primary EXCEPT
     !.sources = Uniq(OrElse(primary.sources, <<>>) \o OrElse(secondary.sources, <<>>)),
     !.source_urls =
        Uniq(OrElse(primary.source_urls, <<>>) \o OrElse(secondary.source_urls, <<>>)),
     !.date = IF ~TruthyNum(@) /\ TruthyNum(secondary.date) THEN secondary.date ELSE @,
     !.pathogen = IF ~TruthyStr(@) /\ TruthyStr(secondary.pathogen)
                  THEN secondary.pathogen ELSE @,
     !.product = IF ~TruthyStr(@) /\ TruthyStr(secondary.product)
                 THEN secondary.product ELSE @,
     !.states = IF ~TruthyArr(@) /\ TruthyArr(secondary.states)
                THEN secondary.states ELSE @,
     !.recall_number = IF ~TruthyStr(@) /\ TruthyStr(secondary.recall_number)
                       THEN secondary.recall_number ELSE @,
     !.classification = IF ~TruthyStr(@) /\ TruthyStr(secondary.classification)
                        THEN secondary.classification ELSE @,
     !.case_count = IF ~TruthyNum(@) /\ TruthyNum(secondary.case_count)
                    THEN secondary.case_count ELSE @,
     !.recalling_firm = IF ~TruthyStr(@) /\ TruthyStr(secondary.recalling_firm)
                        THEN secondary.recalling_firm ELSE @,
     !.summary = IF TruthyStr(secondary.summary)
                    /\ Len(secondary.summary) > Len(IF TruthyStr(@) THEN @ ELSE <<>>)
                 THEN secondary.summary ELSE @,
     !.severity = IF mergeRank(secondary.severity) > mergeRank(@)
                  THEN secondary.severity ELSE @,
     !.tags = IF TruthyArr(secondary.tags)
              THEN Uniq(OrElse(@, <<>>) \o secondary.tags) ELSE @]

mergeItems_keepsFirm(primary, secondary) ==
  [primary EXCEPT
     !.sources = Uniq(OrElse(primary.sources, <<>>) \o OrElse(secondary.sources, <<>>)),
     !.source_urls =
        Uniq(OrElse(primary.source_urls, <<>>) \o OrElse(secondary.source_urls, <<>>)),
     !.pathogen = IF ~TruthyStr(@) /\ TruthyStr(secondary.pathogen)
                  THEN secondary.pathogen ELSE @,
     !.product = IF ~TruthyStr(@) /\ TruthyStr(secondary.product)
                 THEN secondary.product ELSE @,
     !.states = IF ~TruthyArr(@) /\ TruthyArr(secondary.states)
                THEN secondary.states ELSE @,
     !.recall_number = IF ~TruthyStr(@) /\ TruthyStr(secondary.recall_number)
                       THEN secondary.recall_number ELSE @,
     !.classification = IF ~TruthyStr(@) /\ TruthyStr(secondary.classification)
                        THEN secondary.classification ELSE @,
     !.case_count = IF ~TruthyNum(@) /\ TruthyNum(secondary.case_count)
                    THEN secondary.case_count ELSE @,
     !.recalling_firm = @,
     !.summary = IF TruthyStr(secondary.summary)
                    /\ Len(secondary.summary) > Len(IF TruthyStr(@) THEN @ ELSE <<>>)
                 THEN secondary.summary ELSE @,
     !.severity = IF mergeRank(secondary.severity) > mergeRank(@)
                  THEN secondary.severity ELSE @,
     !.tags = IF TruthyArr(secondary.tags)
              THEN Uniq(OrElse(@, <<>>) \o secondary.tags) ELSE @]

mergeItems(primary, secondary) ==
  [primary EXCEPT
     !.sources = Uniq(OrElse(primary.sources, <<>>) \o OrElse(secondary.sources, <<>>)),
     !.source_urls =
        Uniq(OrElse(primary.source_urls, <<>>) \o OrElse(secondary.source_urls, <<>>)),
     !.pathogen = IF ~TruthyStr(@) /\ TruthyStr(secondary.pathogen)
                  THEN secondary.pathogen ELSE @,
     !.product = IF ~TruthyStr(@) /\ TruthyStr(secondary.product)
                 THEN secondary.product ELSE @,
     !.states = IF ~TruthyArr(@) /\ TruthyArr(secondary.states)
                THEN secondary.states ELSE @,
     !.recall_number = IF ~TruthyStr(@) /\ TruthyStr(secondary.recall_number)
                       THEN secondary.recall_number ELSE @,
     !.classification = IF ~TruthyStr(@) /\ TruthyStr(secondary.classification)
                        THEN secondary.classification ELSE @,
     !.case_count = IF ~TruthyNum(@) /\ TruthyNum(secondary.case_count)
                    THEN secondary.case_count ELSE @,
     !.recalling_firm = IF ~TruthyStr(@) /\ TruthyStr(secondary.recalling_firm)
                        THEN secondary.recalling_firm ELSE @,
     !.summary = IF TruthyStr(secondary.summary)
                    /\ Len(secondary.summary) > Len(IF TruthyStr(@) THEN @ ELSE <<>>)
                 THEN secondary.summary ELSE @,
     !.severity = IF mergeRank(secondary.severity) > mergeRank(@)
                  THEN secondary.severity ELSE @,
     !.tags = IF TruthyArr(secondary.tags)
              THEN Uniq(OrElse(@, <<>>) \o secondary.tags) ELSE @]

\* the inner loop of deduplicateAndMerge: the index of the first cluster the
\* item duplicates, 0 when foundCluster stays false
DedupTarget(clusters, item) ==
  LET hits == {i \in 1..Len(clusters) : areDuplicates(clusters[i], item)}
  IN IF hits = {} THEN 0 ELSE CHOOSE i \in hits : \A j \in hits : i <= j

DedupStep_lastCluster(clusters, item) ==
  IF \E i \in 1..Len(clusters) : areDuplicates(clusters[i], item)
  THEN LET i == CHOOSE k \in 1..Len(clusters) :
                  /\ areDuplicates(clusters[k], item)
                  /\ \A j \in (k + 1)..Len(clusters) : ~areDuplicates(clusters[j], item)
       IN [clusters EXCEPT ![i] = mergeItems(clusters[i], item)]
  ELSE Append(clusters, item)

\* one iteration of the outer loop of deduplicateAndMerge: the item is merged
\* into the first cluster it duplicates, or pushed as a new cluster
DedupStep(clusters, item) ==
  IF \E i \in 1..Len(clusters) : areDuplicates(clusters[i], item)
  THEN LET i == CHOOSE k \in 1..Len(clusters) :
                  /\ areDuplicates(clusters[k], item)
                  /\ \A j \in 1..(k - 1) : ~areDuplicates(clusters[j], item)
       IN [clusters EXCEPT ![i] = mergeItems(clusters[i], item)]
  ELSE Append(clusters, item)

RECURSIVE deduplicateAndMerge(_)
deduplicateAndMerge(items) ==
  IF items = <<>> THEN <<>>
  ELSE DedupStep(deduplicateAndMerge(SubSeq(items, 1, Len(items) - 1)),
                 items[Len(items)])

\* ------------------------------------------------------------ aggregator

\* severityOrder of the sort: { high: 0, medium: 1, low: 2 }, read with || 2
sortRank(sev) ==
  LET severityOrder == CASE sev = "high" -> 0 [] sev = "medium" -> 1
                         [] sev = "low" -> 2 [] OTHER -> 0
  IN IF severityOrder # 0 THEN severityOrder ELSE 2

\* (date || ''): '' sorts before every date
dateKey(item) == IF TruthyNum(item.date) THEN item.date ELSE 0

\* the comparator of fetchAllMediaSources is negative: a sorts before b
SortsBefore(a, b) ==
  \/ dateKey(a) > dateKey(b)
  \/ dateKey(a) = dateKey(b) /\ sortRank(a.severity) < sortRank(b.severity)

\* Array.prototype.sort is stable: an item goes before the first one that it
\* sorts before
RECURSIVE sortMerged(_)
sortMerged(s) ==
  IF s = <<>> THEN <<>>
  ELSE LET init == sortMerged(SubSeq(s, 1, Len(s) - 1))
           x == s[Len(s)]
           later == {i \in 1..Len(init) : SortsBefore(x, init[i])}
           pos == IF later = {} THEN Len(init) + 1
                  ELSE CHOOSE i \in later : \A j \in later : i <= j
       IN SubSeq(init, 1, pos - 1) \o <<x>> \o SubSeq(init, pos, Len(init))

cleanItem_keepsKey(item) ==
  [k \in DOMAIN item |-> IF k = "source_type" THEN "media" ELSE item[k]]

\* the clean-up of one item: delete clean._dedup_key, clean.source_type = 'media'
cleanItem(item) ==
  [k \in (DOMAIN item \ {"_dedup_key"}) |-> IF k = "source_type" THEN "media" ELSE item[k]]

RECURSIVE Flatten(_)
Flatten(lists) == IF lists = <<>> THEN <<>> ELSE Head(lists) \o Flatten(Tail(lists))

\* fetchAllMediaSources from the combined raw items on
fetchAllOutput(allItems) ==
  MapSeq(sortMerged(deduplicateAndMerge(allItems)), cleanItem)

\* ----------------------------------------- one adapter call, step by step

OptionsSet ==
  {[days |-> 1, since |-> NoNum], [days |-> 2, since |-> NoNum], [days |-> 1, since |-> 1]}

Adapters == {"fsn", "fsm", "fda", "fsis", "cdc"}

\* a request is <<call site, index>>: the index is the topic id of a topic
\* feed and the position of the url in the list of a strategy
Sites == {"news", "topic", "enforcement", "scrape", "fallback", "media", "page", "feed"}

\* fetchRSS of the news adapter and fetchJSON register no timeout handler;
\* fetchRSS of the magazine adapter and both fetchURL do
HasTimer(r) == r[1] \notin {"news", "enforcement"}

\* fetchURL follows a 3xx response that carries a location
FollowsRedirects(r) == r[1] \in {"scrape", "fallback", "media", "page", "feed"}

MaxHops == 1

\* the topics option of a caller of the magazine adapter: the first MaxTopics
\* of the default ones
MaxTopics == 3
TopicsAsked == SubSeq(TOPIC_IDS, 1, MaxTopics)

\* the requests an adapter has issued when its call returns its promise
FirstRequests(a) ==
  CASE a = "fsn" -> {<<"news", 1>>}
    [] a = "fsm" -> {<<"topic", id>> : id \in ToSet(TopicsAsked)}
    [] a = "fda" -> {<<"enforcement", 1>>}
    [] a = "fsis" -> {<<"scrape", 1>>}
    [] a = "cdc" -> {<<"media", 1>>, <<"page", 1>>, <<"feed", 1>>}

\* the 200 bodies an upstream may serve for a request
Bodies(r) ==
  CASE r[1] = "news" -> NewsDocs \cup {BadDoc}
    [] r[1] = "topic" -> {TopicFeed(r[2]), BadDoc}
    [] r[1] = "enforcement" -> EnforcementBodies \cup {BadJson}
    [] r[1] = "scrape" -> FsisPages
    [] r[1] = "fallback" -> EnforcementBodies \cup {BadJson}
    [] r[1] = "media" -> {MediaBody(r[2]), BadJson}
    [] r[1] = "page" -> {PageAnchors(r[2])}
    [] r[1] = "feed" -> {CdcFeed(r[2]), BadDoc}

\* the body is handed to an XML or JSON parser, which fails on it
Malformed(r, body) == r[1] \notin {"scrape", "page"} /\ ~body.wellFormed

NoAcc ==
  [seenUrls |-> {}, allArticles |-> <<>>, seenIds |-> {}, mediaItems |-> <<>>,
   pageItems |-> <<>>, rssItems |-> <<>>, returned |-> {}]

Settled(state, value) == [state |-> state, value |-> value]
StillPending == Settled("pending", <<>>)

\* allArticles.sort((a, b) => b.date.localeCompare(a.date)), a stable sort
RECURSIVE sortArticles(_)
sortArticles(s) ==
  IF s = <<>> THEN <<>>
  ELSE LET init == sortArticles(SubSeq(s, 1, Len(s) - 1))
           x == s[Len(s)]
           later == {i \in 1..Len(init) : x.date > init[i].date}
           pos == IF later = {} THEN Len(init) + 1
                  ELSE CHOOSE i \in later : \A j \in later : i <= j
       IN SubSeq(init, 1, pos - 1) \o <<x>> \o SubSeq(init, pos, Len(init))

\* fetchFoodSafetyNews from its await on: a rejected fetchRSS is caught, the
\* promise it returns around parseString is not awaited inside the try
newsSettle_uncaught(ok, doc, o) ==
  IF ~ok \/ ~doc.wellFormed THEN Settled("rejected", <<>>)
  ELSE Settled("fulfilled", newsArticles(doc, cutoffOf(o)))

newsSettle(ok, doc, o) ==
  IF ~ok THEN Settled("fulfilled", <<>>)
  ELSE IF ~doc.wellFormed THEN Settled("rejected", <<>>)
  ELSE Settled("fulfilled", newsArticles(doc, cutoffOf(o)))

newsContinue(r, ok, doc) ==
  /\ settled' = newsSettle(ok, doc, aopts)
  /\ inflight' = inflight \ {r}
  /\ locals' = locals

\* fetchFDARecalls from its await on: fetchJSON rejects on a transport failure
\* and on a body JSON.parse throws on, and the catch returns []
fdaSettle(ok, body, o) ==
  IF ok /\ body.wellFormed THEN Settled("fulfilled", fdaRecalls(body))
  ELSE Settled("fulfilled", <<>>)

fdaContinue(r, ok, body) ==
  /\ settled' = fdaSettle(ok, body, aopts)
  /\ inflight' = inflight \ {r}
  /\ locals' = locals

topicStep_oneTry(before, ok, doc, topicId, o) ==
  IF ok /\ doc.wellFormed THEN magazineFeed(before, doc.items, topicId, cutoffOf(o))
  ELSE <<{}, <<>>>>

\* the body of one topic callback of fetchFoodSafetyMagazine after its awaits:
\* a failed fetch and a parse error are caught and leave the shared locals alone
topicStep(before, ok, doc, topicId, o) ==
  IF ok /\ doc.wellFormed THEN magazineFeed(before, doc.items, topicId, cutoffOf(o))
  ELSE before

\* one topic callback, and the continuation of Promise.all when it is the last
topicContinue(r, ok, doc) ==
  LET after == topicStep(<<locals.seenUrls, locals.allArticles>>, ok, doc, r[2], aopts)
  IN /\ locals' = [locals EXCEPT !.seenUrls = after[1], !.allArticles = after[2]]
     /\ inflight' = inflight \ {r}
     /\ settled' = IF inflight \ {r} = {}
                   THEN Settled("fulfilled", sortArticles(after[2]))
                   ELSE settled

scrapeContinue_onlyOnFailure(r, ok, page) ==
  LET scrapeResult == IF ok THEN scrapeFSISPage(page, cutoffOf(aopts)) ELSE <<>>
  IN /\ locals' = locals
     /\ IF ok
        THEN /\ settled' = Settled("fulfilled", scrapeResult)
             /\ inflight' = inflight \ {r}
        ELSE /\ settled' = settled
             /\ inflight' = (inflight \ {r}) \cup {<<"fallback", 1>>}

\* fetchFSISRecalls after tryScrapeFSIS returned
scrapeContinue(r, ok, page) ==
  LET scrapeResult == IF ok THEN scrapeFSISPage(page, cutoffOf(aopts)) ELSE <<>>
  IN /\ locals' = locals
     /\ IF Len(scrapeResult) > 0
        THEN /\ settled' = Settled("fulfilled", scrapeResult)
             /\ inflight' = inflight \ {r}
        ELSE /\ settled' = settled
             /\ inflight' = (inflight \ {r}) \cup {<<"fallback", 1>>}

\* fetchFSISRecalls after tryOpenFDAFallback returned: its catch returns []
fallbackSettle(ok, body) ==
  IF ok /\ body.wellFormed THEN Settled("fulfilled", fsisFallbackRecalls(body))
  ELSE Settled("fulfilled", <<>>)

fallbackContinue(r, ok, body) ==
  /\ settled' = fallbackSettle(ok, body)
  /\ inflight' = inflight \ {r}
  /\ locals' = locals

\* the continuation of Promise.all in fetchCDCOutbreaks, taken by the strategy
\* that returns last
cdcJoin(after) ==
  settled' = IF after.returned = {"media", "page", "feed"}
             THEN Settled("fulfilled",
                          cdcCombine(aopts, after.mediaItems, after.pageItems, after.rssItems))
             ELSE settled

mediaStep_oneTry(before, ok, body, o) ==
  IF ok /\ body.wellFormed THEN cdcMediaResults(before, body.results, cutoffOf(o))
  ELSE <<{}, <<>>>>

\* the try block of one iteration of the loop of tryCDCMediaAPI
mediaStep(before, ok, body, o) ==
  IF ok /\ body.wellFormed THEN cdcMediaResults(before, body.results, cutoffOf(o))
  ELSE before

\* one iteration of the loop of tryCDCMediaAPI over its three queries
mediaContinue(r, ok, body) ==
  LET before == <<locals.seenIds, locals.mediaItems>>
      next == mediaStep(before, ok, body, aopts)
      after == [locals EXCEPT !.seenIds = next[1], !.mediaItems = next[2],
                           !.returned = IF r[2] < 3 THEN @ ELSE @ \cup {"media"}]
  IN /\ locals' = after
     /\ inflight' = (inflight \ {r}) \cup (IF r[2] < 3 THEN {<<"media", r[2] + 1>>} ELSE {})
     /\ cdcJoin(after)

\* one iteration of the loop of tryCDCOutbreakPages over its four pages: the
\* first page with outbreak links returns them
pageContinue(r, ok, anchors) ==
  LET outbreaks == IF ok THEN cdcPageOutbreaks(anchors) ELSE <<>>
      more == Len(outbreaks) = 0 /\ r[2] < 4
      after == IF more THEN locals
               ELSE [locals EXCEPT !.pageItems = outbreaks, !.returned = @ \cup {"page"}]
  IN /\ locals' = after
     /\ inflight' = (inflight \ {r}) \cup (IF more THEN {<<"page", r[2] + 1>>} ELSE {})
     /\ cdcJoin(after)

\* one iteration of the loop of tryCDCRSS over its two feeds: the first feed
\* that is fetched returns, whatever its body
feedContinue(r, ok, doc) ==
  LET more == ~ok /\ r[2] < 2
      after == IF more THEN locals
               ELSE [locals EXCEPT !.rssItems = IF ok THEN cdcRssItems(doc, cutoffOf(aopts))
                                             ELSE <<>>,
                                !.returned = @ \cup {"feed"}]
  IN /\ locals' = after
     /\ inflight' = (inflight \ {r}) \cup (IF more THEN {<<"feed", r[2] + 1>>} ELSE {})
     /\ cdcJoin(after)

\* the code that runs when the helper promise of request r settles
Continue(r, ok, body) ==
  CASE r[1] = "news" -> newsContinue(r, ok, body)
    [] r[1] = "topic" -> topicContinue(r, ok, body)
    [] r[1] = "enforcement" -> fdaContinue(r, ok, body)
    [] r[1] = "scrape" -> scrapeContinue(r, ok, body)
    [] r[1] = "fallback" -> fallbackContinue(r, ok, body)
    [] r[1] = "media" -> mediaContinue(r, ok, body)
    [] r[1] = "page" -> pageContinue(r, ok, body)
    [] r[1] = "feed" -> feedContinue(r, ok, body)

\* the variables of the other specifications stay as they are
OnlyAdapterVars == UNCHANGED <<pairVars, mergeVars, textVars, fetchVars, orderVars, dedupVars, aggVars>>

\* a caller invokes one adapter: the call runs to its first await
Invoke(a, o) ==
  /\ adapter = "none"
  /\ adapter' = a
  /\ aopts' = o
  /\ inflight' = FirstRequests(a)
  /\ UNCHANGED <<quiet, hops, locals, settled, replies, served>>
  /\ OnlyAdapterVars

Awaited(r) == r \in inflight /\ r \notin quiet

\* served once request r has ended: with a 200 and a body that parsed (ok),
\* or with a failure of the transport or of the parser
NoAnswers == [r \in {} |-> [ok |-> FALSE, body |-> <<>>]]
Answer(r, ok, body) ==
  [q \in DOMAIN served \cup {r} |->
     IF q = r THEN [ok |-> ok, body |-> body] ELSE served[q]]

\* the upstream answers 200 and the body arrives: the 'end' handler resolves
\* the helper promise (fetchJSON and the JSON.parse callers parse it first)
Respond(r, body) ==
  /\ Awaited(r)
  /\ Continue(r, TRUE, body)
  /\ replies' = replies \cup {IF Malformed(r, body) THEN "parse" ELSE "ok"}
  /\ served' = IF Malformed(r, body) THEN Answer(r, FALSE, <<>>) ELSE Answer(r, TRUE, body)
  /\ UNCHANGED <<adapter, aopts, quiet, hops>>
  /\ OnlyAdapterVars

\* the upstream answers with a status that is neither 200 nor a followed
\* redirect: the 'end' handler rejects the helper promise
RespondStatus(r) ==
  /\ Awaited(r)
  /\ Continue(r, FALSE, <<>>)
  /\ replies' = replies \cup {"transport"}
  /\ served' = Answer(r, FALSE, <<>>)
  /\ UNCHANGED <<adapter, aopts, quiet, hops>>
  /\ OnlyAdapterVars

\* the connection fails: the 'error' handler rejects the helper promise
ConnectionError(r) ==
  /\ Awaited(r)
  /\ Continue(r, FALSE, <<>>)
  /\ replies' = replies \cup {"transport"}
  /\ served' = Answer(r, FALSE, <<>>)
  /\ UNCHANGED <<adapter, aopts, quiet, hops>>
  /\ OnlyAdapterVars

\* fetchURL gets a 3xx with a location and fetches the location in its place
Redirect(r) ==
  /\ Awaited(r)
  /\ FollowsRedirects(r)
  /\ hops < MaxHops
  /\ hops' = hops + 1
  /\ UNCHANGED <<adapter, aopts, inflight, quiet, locals, settled, replies, served>>
  /\ OnlyAdapterVars

\* the upstream of a helper without timeout handler accepts the request and
\* never answers it: nothing is left to run for the request
StaySilent(r) ==
  /\ Awaited(r)
  /\ ~HasTimer(r)
  /\ quiet' = quiet \cup {r}
  /\ UNCHANGED <<adapter, aopts, inflight, hops, locals, settled, replies, served>>
  /\ OnlyAdapterVars

\* the upstream of a helper that set a timeout stays silent for that long: the
\* 'timeout' handler destroys the request and rejects the helper promise
Timeout(r) ==
  /\ Awaited(r)
  /\ HasTimer(r)
  /\ Continue(r, FALSE, <<>>)
  /\ replies' = replies \cup {"transport"}
  /\ served' = Answer(r, FALSE, <<>>)
  /\ UNCHANGED <<adapter, aopts, quiet, hops>>
  /\ OnlyAdapterVars

InitAdapterVars ==
  /\ adapter = "none"
  /\ aopts = CHOOSE o \in OptionsSet : TRUE
  /\ inflight = {}
  /\ quiet = {}
  /\ hops = 0
  /\ locals = NoAcc
  /\ settled = StillPending
  /\ replies = {}
  /\ served = NoAnswers

\* ------------------------------------------ whole adapter calls

\* what one request of a whole call meets: a 200 with a body, a transport
\* failure, or an upstream that never answers
Reply(kind, body) == [kind |-> kind, body |-> body]

\* fetchFoodSafetyNews as one step: fetchRSS sets no timeout, so the call never
\* settles on a silent upstream
newsRun(reply, o) ==
  IF reply.kind = "silent" THEN StillPending
  ELSE newsSettle(reply.kind = "ok", reply.body, o)

\* fetchFDARecalls as one step: fetchJSON sets no timeout either
fdaRun(reply, o) ==
  IF reply.kind = "silent" THEN StillPending
  ELSE fdaSettle(reply.kind = "ok", reply.body, o)

\* fetchFoodSafetyMagazine as one step: the topic callbacks run in the order
\* their feeds complete; a silent feed times out and is a failed one
RECURSIVE magazineFold(_, _, _, _)
magazineFold(before, order, failed, o) ==
  IF order = <<>> THEN before
  ELSE magazineFold(topicStep(before, Head(order) \notin failed, TopicFeed(Head(order)),
                              Head(order), o),
                    Tail(order), failed, o)

magazineRun(run, o) ==
  Settled("fulfilled", sortArticles(magazineFold(<<{}, <<>>>>, run.order, run.failed, o)[2]))

\* fetchFSISRecalls as one step: fetchURL times out on a silent upstream
fsisRun(run, o) ==
  LET scrapeResult == IF run.scrape.kind = "ok"
                      THEN scrapeFSISPage(run.scrape.body, cutoffOf(o)) ELSE <<>>
  IN IF Len(scrapeResult) > 0 THEN Settled("fulfilled", scrapeResult)
     ELSE fallbackSettle(run.fallback.kind = "ok", run.fallback.body)

\* tryCDCMediaAPI: every query is tried, the failed ones are skipped
RECURSIVE cdcMediaFold(_, _, _, _)
cdcMediaFold(before, i, failed, o) ==
  IF i > 3 THEN before
  ELSE cdcMediaFold(mediaStep(before, i \notin failed, MediaBody(i), o), i + 1, failed, o)

\* tryCDCOutbreakPages: the first fetched page with outbreak links
RECURSIVE cdcPagesFrom(_, _)
cdcPagesFrom(i, failed) ==
  IF i > 4 THEN <<>>
  ELSE LET outbreaks == IF i \in failed THEN <<>> ELSE cdcPageOutbreaks(PageAnchors(i))
       IN IF Len(outbreaks) > 0 THEN outbreaks ELSE cdcPagesFrom(i + 1, failed)

\* tryCDCRSS: the first fetched feed
RECURSIVE cdcFeedsFrom(_, _, _)
cdcFeedsFrom(i, failed, o) ==
  IF i > 2 THEN <<>>
  ELSE IF i \in failed THEN cdcFeedsFrom(i + 1, failed, o)
  ELSE cdcRssItems(CdcFeed(i), cutoffOf(o))

\* fetchCDCOutbreaks as one step
cdcRun(run, o) ==
  Settled("fulfilled",
          cdcCombine(o, cdcMediaFold(<<{}, <<>>>>, 1, run.media, o)[2],
                     cdcPagesFrom(1, run.pages), cdcFeedsFrom(1, run.feeds, o)))

\* the upstream behaviours the aggregate call is explored under
NewsReplies ==
  {Reply("ok", d) : d \in NewsDocs \cup {BadDoc}}
    \cup {Reply("fail", BadDoc), Reply("silent", BadDoc)}

EnforcementReplies ==
  {Reply("ok", b) : b \in EnforcementBodies \cup {BadJson}}
    \cup {Reply("fail", BadJson), Reply("silent", BadJson)}

Reverse(s) == [i \in 1..Len(s) |-> s[Len(s) + 1 - i]]

MagazineRuns ==
  {[order |-> TOPIC_IDS, failed |-> {}], [order |-> Reverse(TOPIC_IDS), failed |-> {}],
   [order |-> TOPIC_IDS, failed |-> {305}], [order |-> TOPIC_IDS, failed |-> ToSet(TOPIC_IDS)]}

NoPage == [embedded |-> <<>>, rows |-> <<>>]

FsisRuns ==
  {[scrape |-> Reply("ok", pg), fallback |-> Reply("fail", BadJson)] : pg \in FsisPages}
    \cup {[scrape |-> Reply("fail", NoPage), fallback |-> Reply("ok", b)] :
            b \in EnforcementBodies \cup {BadJson}}

CdcRuns ==
  {[media |-> {}, pages |-> {}, feeds |-> {}],
   [media |-> {1}, pages |-> {2}, feeds |-> {1}],
   [media |-> {1, 2, 3}, pages |-> {1, 2, 3, 4}, feeds |-> {1, 2}]}

\* the outcomes of each adapter under each choice of options, computed once
NewsOutcomes == [o \in OptionsSet |-> {newsRun(rep, o) : rep \in NewsReplies}]
FdaOutcomes == [o \in OptionsSet |-> {fdaRun(rep, o) : rep \in EnforcementReplies}]
MagazineOutcomes == [o \in OptionsSet |-> {magazineRun(run, o) : run \in MagazineRuns}]
FsisOutcomes == [o \in OptionsSet |-> {fsisRun(run, o) : run \in FsisRuns}]
CdcOutcomes == [o \in OptionsSet |-> {cdcRun(run, o) : run \in CdcRuns}]

\* ------------------------------------------------ the aggregate call

NotLaunched == Settled("none", <<>>)

\* the order of the keys of fetchers, and so of Object.values(results)
SourceOrder == <<"fsn", "fsm", "fda", "fsis", "cdc">>

IsSettled(p) == p.state \in {"fulfilled", "rejected"}

\* results[key]: the value of a fulfilled promise, [] for a rejected one
resultsOf(promises) ==
  [i \in 1..Len(SourceOrder) |->
     IF promises[SourceOrder[i]].state = "fulfilled" THEN promises[SourceOrder[i]].value
     ELSE <<>>]

\* fetchAllMediaSources from Promise.allSettled on
allSettled_all(promises) ==
  IF \E s \in Adapters : promises[s].state = "rejected"
  THEN [state |-> "rejected", out |-> <<>>]
  ELSE [state |-> "resolved", out |-> fetchAllOutput(Flatten(resultsOf(promises)))]

\* the results taken in the order in which the promises settled
allSettled_inSettleOrder(promises) ==
  [state |-> "resolved",
   out |-> fetchAllOutput(Flatten([i \in 1..Len(settleOrder) |->
                                     IF promises[settleOrder[i]].state = "fulfilled"
                                     THEN promises[settleOrder[i]].value ELSE <<>>]))]

allSettled(promises) ==
  [state |-> "resolved", out |-> fetchAllOutput(Flatten(resultsOf(promises)))]

\* the variables of the other specifications stay as they are
OnlyAggVars == UNCHANGED <<pairVars, mergeVars, textVars, fetchVars, orderVars, dedupVars, adapterVars>>

\* the call up to its await: every enabled adapter is called
fetchAllMediaSources(o, enabledSources) ==
  /\ agg.state = "idle"
  /\ agg' = [state |-> "pending", out |-> <<>>]
  /\ options' = o
  /\ promise' = [s \in Adapters |-> IF s \in enabledSources THEN StillPending ELSE NotLaunched]
  /\ UNCHANGED unanswered
  /\ OnlyAggVars

\* the promise of adapter s settles as res, or stays pending for good
AdapterOutcome(s, res) ==
  /\ promise[s].state = "pending"
  /\ s \notin unanswered
  /\ promise' = [promise EXCEPT ![s] = res]
  /\ unanswered' = IF res.state = "pending" THEN unanswered \cup {s} ELSE unanswered
  /\ UNCHANGED <<options, agg>>
  /\ OnlyAggVars

fetchFoodSafetyNews == \E res \in NewsOutcomes[options] : AdapterOutcome("fsn", res)
fetchFoodSafetyMagazine == \E res \in MagazineOutcomes[options] : AdapterOutcome("fsm", res)
fetchFDARecalls == \E res \in FdaOutcomes[options] : AdapterOutcome("fda", res)
fetchFSISRecalls == \E res \in FsisOutcomes[options] : AdapterOutcome("fsis", res)
fetchCDCOutbreaks == \E res \in CdcOutcomes[options] : AdapterOutcome("cdc", res)

\* Promise.allSettled has resolved: every launched promise has settled
ResumeReady ==
  /\ agg.state = "pending"
  /\ \A s \in Adapters : promise[s].state # "pending"

\* the rest of the call runs
Resume ==
  /\ ResumeReady
  /\ agg' = allSettled(promise)
  /\ UNCHANGED <<options, promise, unanswered>>
  /\ OnlyAggVars

InitAggVars ==
  /\ options = CHOOSE o \in OptionsSet : TRUE
  /\ promise = [s \in Adapters |-> NotLaunched]
  /\ unanswered = {}
  /\ agg = [state |-> "idle", out |-> <<>>]

\* ------------------------------- the aggregate call with fixed results

\* what an adapter fulfils with when it does
FixedItems ==
  [s \in Adapters |->
     CASE s = "fsn" -> <<newsArticle(NewsAcme)>>
       [] s = "fsm" -> <<magazineArticle(MagLessons, MagLessons.link, 305)>>
       [] s = "fda" -> <<fdaRecallItem(RecallAcme), fdaRecallItem(RecallBeta)>>
       [] s = "fsis" -> <<fsisFallbackItem(RecallAcme)>>
       [] s = "cdc" -> <<cdcMediaItem(MediaEggs), cdcRssItem(RssDeli)>>]

\* fetchAllMediaSources({}) has called the five adapters and awaits them;
\* each adapter is going to fulfil with its items or to reject
InitOrderVars ==
  /\ outcome \in [Adapters -> {"fulfilled", "rejected"}]
  /\ settleOrder = <<>>
  /\ options = CHOOSE o \in OptionsSet : TRUE
  /\ promise = [s \in Adapters |-> StillPending]
  /\ unanswered = {}
  /\ agg = [state |-> "pending", out |-> <<>>]

\* the promise of adapter s settles with its result
Settle(s) ==
  /\ promise[s].state = "pending"
  /\ promise' = [promise EXCEPT ![s] = IF outcome[s] = "fulfilled"
                                        THEN Settled("fulfilled", FixedItems[s])
                                        ELSE Settled("rejected", <<>>)]
  /\ settleOrder' = Append(settleOrder, s)
  /\ UNCHANGED <<outcome, options, unanswered, agg>>
  /\ UNCHANGED <<pairVars, mergeVars, textVars, fetchVars, dedupVars, adapterVars>>

\* ------------------------------------------ deduplicateAndMerge, by item

MaxItems == 3

\* items as the adapters build them
ItemPool ==
  <<fdaRecallItem(RecallAcme), newsArticle(NewsAcme), newsArticle(NewsDeaths),
    fdaRecallItem(RecallBeta), fsisFallbackItem(RecallAcme), cdcMediaItem(MediaEggs),
    cdcMediaItem(MediaEggsUpdate), cdcPageItem(PageAnchors(2)[1]), cdcRssItem(RssDeli),
    newsArticle(NewsTagged), fdaRecallItem(RecallAcmeMilk), fdaRecallItem(RecallAlpha),
    fsisFallbackItem(RecallHam), fsisFallbackItem(RecallEggs)>>

InitDedupVars ==
  /\ \E n \in 0..MaxItems : \E pick \in [1..n -> 1..Len(ItemPool)] :
       dedupIn = [i \in 1..n |-> ItemPool[pick[i]]]
  /\ merged = <<>>
  /\ cursor = 0
  /\ members = <<>>

\* one iteration of the outer loop
DedupTake ==
  /\ cursor < Len(dedupIn)
  /\ merged' = DedupStep(merged, dedupIn[cursor + 1])
  /\ members' = LET i == DedupTarget(merged, dedupIn[cursor + 1])
                IN IF i = 0 THEN Append(members, <<cursor + 1>>)
                   ELSE [members EXCEPT ![i] = Append(@, cursor + 1)]
  /\ cursor' = cursor + 1
  /\ UNCHANGED dedupIn
  /\ UNCHANGED <<pairVars, mergeVars, textVars, fetchVars, orderVars, adapterVars, aggVars>>

\* ------------------------------------------------ mergeItems, call by call

\* the items a mergeItems call may get: those of ItemPool and items with
\* absent properties
MergePool ==
  ItemPool \o <<fdaRecallItem(RecallBare), newsArticle(NewsBare),
                magazineArticle(MagLessons, MagLessons.link, 305)>>

InitMergeVars ==
  /\ \E i, j \in 1..Len(MergePool) : mergeArgs = <<MergePool[i], MergePool[j]>>
  /\ mergeOut = <<>>

\* mergeItems(primary, secondary), and the result merged with secondary again
MergeApply ==
  /\ mergeOut = <<>>
  /\ mergeOut' = LET once == mergeItems(mergeArgs[1], mergeArgs[2])
                 IN <<once, mergeItems(once, mergeArgs[2])>>
  /\ UNCHANGED mergeArgs
  /\ UNCHANGED <<pairVars, textVars, fetchVars, orderVars, dedupVars, adapterVars, aggVars>>

\* ------------------------------------------- the engine on pairs of items

\* an item with every property of the adapters' item shape
BlankItem(url, title, key) ==
  [source_type |-> "media", sources |-> <<<<"C","D","C">>>>, source_urls |-> <<url>>,
   title |-> title, summary |-> title, date |-> 1, date_estimated |-> FALSE,
   category |-> "Outbreak", severity |-> "medium", pathogen |-> Null,
   product |-> Null, states |-> NullList, tags |-> NullList, recall_number |-> Null,
   classification |-> Null, recalling_firm |-> Null, status |-> Null,
   case_count |-> NoNum, _dedup_key |-> key]

UrlX == <<"h","t","t","p",":","/","/","x">>
UrlY == <<"h","t","t","p",":","/","/","y">>

\* the values one property of an argument may be changed to
FieldValues ==
  [recall_number |-> <<<<>>, <<"F","-","1">>, <<"F","-","2">>>>,
   source_urls |-> <<<<UrlX>>, <<UrlY, UrlX>>, <<Null>>>>,
   _dedup_key |-> <<<<>>, <<"a","c","m","e","b","e","e","f">>, Null>>,
   pathogen |-> <<<<"S","a","l","m","o","n","e","l","l","a">>, <<"L","i","s","t","e","r","i","a">>, <<"E","."," ","c","o","l","i">>>>,
   product |-> <<<<"g","r","o","u","n","d"," ","t","u","r","k","e","y">>, <<"G","r","o","u","n","d"," ","T","u","r","k","e","y"," ","p","a","t","t","i","e","s">>, <<"g","r","o","u","n","d"," ","b","e","e","f">>>>,
   title |-> <<<<"A","c","m","e"," ","r","e","c","a","l","l","s"," ","g","r","o","u","n","d"," ","b","e","e","f"," ","t","o","d","a","y">>, <<"a","c","m","e"," ","r","e","c","a","l","l","s"," ","g","r","o","u","n","d"," ","p","o","r","k"," ","n","o","w">>,
               <<"A","c","m","e"," ","R","e","c","a","l","l","s"," ","G","r","o","u","n","d"," ","B","e","e","f"," ","(","C","l","a","s","s"," ","I",")">>>>,
   recalling_firm |-> <<<<"A","c","m","e"," ","F","o","o","d","s">>, <<"A","C","M","E"," ","F","O","O","D","S">>, <<"B","e","t","a"," ","F","a","r","m","s">>>>]

NumValues == Len(FieldValues.title)

MaxEdits == 3

BlankPair ==
  <<BlankItem(<<"h","t","t","p",":","/","/","a">>, <<"L","i","s","t","e","r","i","a"," ","o","u","t","b","r","e","a","k"," ","i","n","v","e","s","t","i","g","a","t","i","o","n"," ","n","o","t","i","c","e">>, <<"k","a">>),
    BlankItem(<<"h","t","t","p",":","/","/","b">>, <<"W","e","e","k","l","y"," ","p","o","d","c","a","s","t"," ","a","b","o","u","t"," ","k","i","t","c","h","e","n"," ","h","y","g","i","e","n","e">>, <<"k","b">>)>>

\* a slot is a property of one of the two arguments
Slots == {1, 2} \X DOMAIN FieldValues

\* BlankPair with the properties of the slots in DOMAIN choice changed
EditedPair(choice) ==
  [s \in {1, 2} |->
     [f \in DOMAIN BlankPair[s] |->
        IF <<s, f>> \in DOMAIN choice
        THEN FieldValues[f][choice[<<s, f>>]]
        ELSE BlankPair[s][f]]]

PairIdle == [done |-> FALSE, dupAB |-> FALSE, dupBA |-> FALSE]

InitPairVars ==
  /\ \E S \in {T \in SUBSET Slots : Cardinality(T) <= MaxEdits} :
       \E choice \in [S -> 1..NumValues] :
         /\ itemA = EditedPair(choice)[1]
         /\ itemB = EditedPair(choice)[2]
  /\ pairOut = PairIdle

\* both argument orders of areDuplicates are evaluated on the pair
PairApply ==
  /\ ~pairOut.done
  /\ pairOut' = [done |-> TRUE,
                 dupAB |-> areDuplicates(itemA, itemB),
                 dupBA |-> areDuplicates(itemB, itemA)]
  /\ UNCHANGED <<itemA, itemB>>
  /\ UNCHANGED <<mergeVars, textVars, fetchVars, orderVars, dedupVars, adapterVars, aggVars>>

\* the words the texts are made of
TextWords == <<<<"S","a","l","m","o","n","e","l","l","a">>, <<"L","i","s","t","e","r","i","a">>, <<"E","."," ","c","o","l","i">>, <<"B","e","e","f",",">>, <<"b","e","e","f">>, <<"i","n">>>>

MaxWords == 3

\* the texts of at most n words of TextWords, separated by one space
RECURSIVE TextsUpTo(_)
TextsUpTo(n) ==
  IF n = 0 THEN {<<>>}
  ELSE LET shorter == TextsUpTo(n - 1)
       IN shorter \cup {TextWords[i] : i \in 1..Len(TextWords)}
                  \cup {x \o <<" ">> \o TextWords[i] :
                          x \in shorter \ {<<>>}, i \in 1..Len(TextWords)}

LongTexts == TextsUpTo(MaxWords) \cup {Null}
ShortTexts == TextsUpTo(MaxWords - 1)

InitTextVars ==
  /\ textArgs \in LongTexts \X ShortTexts
  /\ textOut = <<>>

\* extractPathogen on the first text
ExtractApply ==
  /\ textOut = <<>>
  /\ textOut' = <<"extractPathogen", extractPathogen(textArgs[1])>>
  /\ UNCHANGED textArgs
  /\ UNCHANGED <<pairVars, mergeVars, fetchVars, orderVars, dedupVars, adapterVars, aggVars>>

\* textSimilarity on the two texts, and areDuplicates on two items that have
\* them as titles and nothing else in common
SimilarityApply ==
  /\ textOut = <<>>
  /\ textOut' = <<"textSimilarity", textSimilarity(textArgs[1], textArgs[2]),
                  areDuplicates([BlankPair[1] EXCEPT !.title = textArgs[1]],
                                [BlankPair[2] EXCEPT !.title = textArgs[2]])>>
  /\ UNCHANGED textArgs
  /\ UNCHANGED <<pairVars, mergeVars, fetchVars, orderVars, dedupVars, adapterVars, aggVars>>

\* --------------------------------------------- fetchURL, hop by hop

MaxUrls == 3

\* what the upstream does with a request for a url: it answers 200 with the
\* body of the url, answers 3xx with the location of another url, answers
\* with another status (a 3xx without location is one), breaks the
\* connection, or stays silent
UrlAnswers ==
  {[kind |-> k, to |-> 0] : k \in {"200", "status", "error", "silent"}}
    \cup {[kind |-> "3xx", to |-> u] : u \in 1..MaxUrls}

BodyOf(u) == <<"body", u>>

InitFetchVars ==
  /\ route \in [1..MaxUrls -> UrlAnswers]
  /\ hop = 1
  /\ fetched = StillPending

OnlyFetchVars == UNCHANGED <<pairVars, mergeVars, textVars, orderVars, dedupVars, adapterVars, aggVars>>

FollowLocation_firstOnly ==
  /\ fetched = StillPending
  /\ route[hop].kind = "3xx"
  /\ hop = 1
  /\ hop' = route[hop].to
  /\ UNCHANGED <<route, fetched>>
  /\ OnlyFetchVars

\* the response callback on a 3xx with a location: fetchURL(location), whose
\* outcome becomes the outcome of this call
FollowLocation ==
  /\ fetched = StillPending
  /\ route[hop].kind = "3xx"
  /\ hop' = route[hop].to
  /\ UNCHANGED <<route, fetched>>
  /\ OnlyFetchVars

\* the 'end' handler on a 200
ResolveBody ==
  /\ fetched = StillPending
  /\ route[hop].kind = "200"
  /\ fetched' = Settled("fulfilled", BodyOf(hop))
  /\ UNCHANGED <<route, hop>>
  /\ OnlyFetchVars

\* the 'end' handler on another status
RejectStatus ==
  /\ fetched = StillPending
  /\ route[hop].kind = "status"
  /\ fetched' = Settled("rejected", <<>>)
  /\ UNCHANGED <<route, hop>>
  /\ OnlyFetchVars

\* req.on('error', reject)
RejectError ==
  /\ fetched = StillPending
  /\ route[hop].kind = "error"
  /\ fetched' = Settled("rejected", <<>>)
  /\ UNCHANGED <<route, hop>>
  /\ OnlyFetchVars

\* the 'timeout' handler of the request that got no response
RejectTimeout ==
  /\ fetched = StillPending
  /\ route[hop].kind = "silent"
  /\ fetched' = Settled("rejected", <<>>)
  /\ UNCHANGED <<route, hop>>
  /\ OnlyFetchVars

\* ------------------------------------------------------- specifications

PairAtRest == itemA = BlankPair[1] /\ itemB = BlankPair[2] /\ pairOut = PairIdle
DedupAtRest == dedupIn = <<>> /\ merged = <<>> /\ cursor = 0 /\ members = <<>>
MergeAtRest == mergeArgs = <<>> /\ mergeOut = <<>>
TextAtRest == textArgs = <<>> /\ textOut = <<>>
FetchAtRest == route = <<>> /\ hop = 0 /\ fetched = NotLaunched
OrderAtRest == outcome = [s \in Adapters |-> "none"] /\ settleOrder = <<>>
AdapterAtRest == InitAdapterVars
AggAtRest == InitAggVars

\* areDuplicates on pairs of items
InitPair == InitPairVars /\ DedupAtRest /\ MergeAtRest /\ AdapterAtRest /\ AggAtRest /\ TextAtRest /\ FetchAtRest /\ OrderAtRest
NextPair == PairApply
SpecPair == InitPair /\ [][NextPair]_vars

\* mergeItems on pairs of adapter items
InitMerge == InitMergeVars /\ PairAtRest /\ DedupAtRest /\ AdapterAtRest /\ AggAtRest /\ TextAtRest /\ FetchAtRest /\ OrderAtRest
NextMerge == MergeApply
SpecMerge == InitMerge /\ [][NextMerge]_vars

\* extractPathogen and textSimilarity on texts
InitText ==
  /\ InitTextVars
  /\ PairAtRest /\ MergeAtRest /\ FetchAtRest /\ DedupAtRest /\ AdapterAtRest /\ AggAtRest
  /\ OrderAtRest
NextText ==
  \/ ExtractApply
  \/ SimilarityApply
SpecText == InitText /\ [][NextText]_vars

\* one fetchURL call, response by response
InitFetch ==
  /\ InitFetchVars
  /\ PairAtRest /\ MergeAtRest /\ TextAtRest /\ DedupAtRest /\ AdapterAtRest /\ AggAtRest
  /\ OrderAtRest
NextFetch ==
  \/ FollowLocation
  \/ ResolveBody
  \/ RejectStatus
  \/ RejectError
  \/ RejectTimeout
SpecFetch == InitFetch /\ [][NextFetch]_vars

\* every request of the call is answered or times out
FairSpecFetch == SpecFetch /\ WF_vars(NextFetch)

\* fetchAllMediaSources with the result of each adapter fixed, settle by settle
InitOrder ==
  /\ InitOrderVars
  /\ PairAtRest /\ MergeAtRest /\ TextAtRest /\ FetchAtRest /\ DedupAtRest /\ AdapterAtRest
NextOrder ==
  \/ \E s \in Adapters : Settle(s)
  \/ Resume
SpecOrder == InitOrder /\ [][NextOrder]_vars

\* deduplicateAndMerge on lists of adapter items
InitDedup == InitDedupVars /\ PairAtRest /\ MergeAtRest /\ AdapterAtRest /\ AggAtRest /\ TextAtRest /\ FetchAtRest /\ OrderAtRest
NextDedup == DedupTake
SpecDedup == InitDedup /\ [][NextDedup]_vars

\* one adapter called on its own, request by request
InitAdapters == InitAdapterVars /\ PairAtRest /\ MergeAtRest /\ DedupAtRest /\ AggAtRest /\ TextAtRest /\ FetchAtRest /\ OrderAtRest
NextAdapters ==
  \/ \E a \in Adapters, o \in OptionsSet : Invoke(a, o)
  \/ \E r \in inflight :
       \/ \E body \in Bodies(r) : Respond(r, body)
       \/ RespondStatus(r)
       \/ ConnectionError(r)
       \/ Redirect(r)
       \/ StaySilent(r)
       \/ Timeout(r)
SpecAdapters == InitAdapters /\ [][NextAdapters]_vars

\* fetchAllMediaSources over whole adapter calls
Init == InitAggVars /\ PairAtRest /\ MergeAtRest /\ DedupAtRest /\ AdapterAtRest /\ TextAtRest /\ FetchAtRest /\ OrderAtRest
Next ==
  \/ \E o \in OptionsSet, enabledSources \in SUBSET Adapters :
       fetchAllMediaSources(o, enabledSources)
  \/ fetchFoodSafetyNews
  \/ fetchFoodSafetyMagazine
  \/ fetchFDARecalls
  \/ fetchFSISRecalls
  \/ fetchCDCOutbreaks
  \/ Resume
Spec == Init /\ [][Next]_vars

AdapterStep ==
  \/ fetchFoodSafetyNews
  \/ fetchFoodSafetyMagazine
  \/ fetchFDARecalls
  \/ fetchFSISRecalls
  \/ fetchCDCOutbreaks

\* the event loop runs a callback while one is ready: weak fairness of the
\* adapter steps and of Resume.  A Resume step ends with Resume disabled, so
\* WF_vars(Resume) is []<>~ENABLED <<Resume>>_vars, and Resume is enabled
\* exactly when ResumeReady holds
FairSpec ==
  /\ Init
  /\ [][Next]_vars
  /\ WF_vars(AdapterStep)
  /\ []<>~ResumeReady

\* ---------------------------------------------------- claims on the pairs

SharedUrl(a, b) ==
  ToSet(OrElse(a.source_urls, <<>>)) \cap ToSet(OrElse(b.source_urls, <<>>)) # {}

SimilarTitles(a, b) == Exceeds(textSimilarity(a.title, b.title), 3, 5)

SimilarProducts(a, b) == Exceeds(textSimilarity(a.product, b.product), 1, 2)

EqualIgnoringCase(x, y) ==
  IF x = Null \/ y = Null THEN x = y ELSE toLowerCase(x) = toLowerCase(y)

NonEmpty(x) == x # Null /\ x # <<>>

\* the six rules as the claim words them: "non-null" is a value other than
\* Null, and the firms are compared as they are
RulesAsStated(a, b) ==
  \/ a.recall_number # Null /\ a.recall_number = b.recall_number
  \/ SharedUrl(a, b)
  \/ a._dedup_key # Null /\ a._dedup_key = b._dedup_key
  \/ a.pathogen # Null /\ a.pathogen = b.pathogen /\ SimilarProducts(a, b)
  \/ SimilarTitles(a, b)
  \/ EqualIgnoringCase(a.recalling_firm, b.recalling_firm)

\* the six rules with every compared value required to be non-empty
RulesNonEmpty(a, b) ==
  \/ NonEmpty(a.recall_number) /\ a.recall_number = b.recall_number
  \/ SharedUrl(a, b)
  \/ NonEmpty(a._dedup_key) /\ a._dedup_key = b._dedup_key
  \/ NonEmpty(a.pathogen) /\ a.pathogen = b.pathogen /\ SimilarProducts(a, b)
  \/ SimilarTitles(a, b)
  \/ /\ NonEmpty(a.recalling_firm) /\ NonEmpty(b.recalling_firm)
     /\ EqualIgnoringCase(a.recalling_firm, b.recalling_firm)

C10_Symmetric == pairOut.done => (pairOut.dupAB <=> pairOut.dupBA)

\* C10 witness: a has the one URL x, b has the URLs y, x, nothing else
\* relates them, and they were found duplicates in both argument orders
C10_Witness ==
  /\ pairOut.done /\ pairOut.dupAB /\ pairOut.dupBA
  /\ itemA.source_urls = <<UrlX>> /\ itemB.source_urls = <<UrlY, UrlX>>
  /\ ~SimilarTitles(itemA, itemB)
  /\ itemA.recall_number = Null /\ itemA.recalling_firm = Null
  /\ itemA.pathogen = Null /\ itemA._dedup_key # itemB._dedup_key
\* ------------------------------------------------ claims on the dedup loop

Providers(item) == ToSet(item.sources)

\* a is the recall record and b the news article of the claim
RecallAndArticle(a, b) ==
  /\ Providers(a) \cap Providers(b) = {}
  /\ Exceeds(textSimilarity(a.title, b.title), 3, 5)
  /\ a.severity = "high" /\ ~TruthyStr(a.pathogen)
  /\ b.severity = "medium" /\ TruthyStr(b.pathogen)

MergedAsOne(a, b) ==
  /\ Len(merged) = 1
  /\ Providers(a) \cup Providers(b) \subseteq Providers(merged[1])
  /\ merged[1].severity = "high"
  /\ merged[1].pathogen = b.pathogen

\* C8: when deduplicateAndMerge has run on two title-duplicates from different
\* sources, a high-severity one without pathogen and a medium-severity one with
\* a pathogen, in either order, it holds one item with both providers, severity
\* high and the pathogen of the medium one
C8_MergesEitherOrder ==
  (Len(dedupIn) = 2 /\ cursor = 2) =>
    /\ RecallAndArticle(dedupIn[1], dedupIn[2]) => MergedAsOne(dedupIn[1], dedupIn[2])
    /\ RecallAndArticle(dedupIn[2], dedupIn[1]) => MergedAsOne(dedupIn[2], dedupIn[1])

\* C8: the loop has finished on a list whose first item is the article and
\* whose second is the recall record
C8_Witness ==
  /\ Len(dedupIn) = 2 /\ cursor = 2
  /\ RecallAndArticle(dedupIn[2], dedupIn[1])
  /\ MergedAsOne(dedupIn[2], dedupIn[1])

\* ------------------------------------------- claims on the aggregate call

Launched == {s \in Adapters : promise[s].state # "none"}

\* the items of the adapters that fulfilled, in the order of the keys
FulfilledItems ==
  Flatten([i \in 1..Len(SourceOrder) |->
             IF promise[SourceOrder[i]].state = "fulfilled"
             THEN promise[SourceOrder[i]].value ELSE <<>>])

\* C1: the aggregate promise never rejects, whichever adapter promises reject;
\* it resolves with the deduplicated, sorted, cleaned items of the adapters that
\* fulfilled, which is the empty list when every launched adapter rejected
C1_ResolvesWithFulfilled ==
  /\ agg.state # "rejected"
  /\ agg.state = "resolved" =>
       /\ agg.out = MapSeq(sortMerged(deduplicateAndMerge(FulfilledItems)), cleanItem)
       /\ (\A s \in Launched : promise[s].state = "rejected") => agg.out = <<>>

\* C1: the call resolved with items although an adapter rejected
C1_Witness ==
  /\ agg.state = "resolved"
  /\ \E s \in Launched : promise[s].state = "rejected"
  /\ \E s \in Launched : promise[s].state = "fulfilled" /\ promise[s].value # <<>>
  /\ agg.out # <<>>

Dated(item) == TruthyNum(item.date)

\* the rank the specification gives a severity: high before medium before low
StatedRank(sev) == CASE sev = "high" -> 0 [] sev = "medium" -> 1 [] OTHER -> 2

\* C5: the returned list is ordered by date descending with undated items
\* last, and among items of one date high precedes medium precedes low
C5_AsStated ==
  agg.state = "resolved" =>
    \A i, j \in 1..Len(agg.out) :
      i < j =>
        /\ Dated(agg.out[j]) => Dated(agg.out[i]) /\ agg.out[i].date >= agg.out[j].date
        /\ (Dated(agg.out[i]) /\ agg.out[i].date = agg.out[j].date) =>
             StatedRank(agg.out[i].severity) <= StatedRank(agg.out[j].severity)

\* C6: no returned item has the property _dedup_key, merged or not, while
\* every item an adapter hands over has it
C6_KeyStripped ==
  /\ agg.state = "resolved" =>
       \A i \in 1..Len(agg.out) : "_dedup_key" \notin DOMAIN agg.out[i]
  /\ \A s \in Launched :
       \A i \in 1..Len(promise[s].value) : "_dedup_key" \in DOMAIN promise[s].value[i]

\* C6: a returned item that went through a merge
C6_Witness ==
  /\ agg.state = "resolved"
  /\ \E i \in 1..Len(agg.out) :
       Len(agg.out[i].sources) > 1 /\ "_dedup_key" \notin DOMAIN agg.out[i]

WellFormedItem(item) ==
  /\ item.category \in {"Recall", "Outbreak", "Alert", "Policy", "Research"}
  /\ item.severity \in {"high", "medium", "low"}
  /\ Len(item.sources) > 0
  /\ Len(item.source_urls) > 0

\* C7: every item an adapter produced and every returned item has a category
\* and a severity of the two enumerations and non-empty sources and source_urls
C7_ItemsWellFormed ==
  /\ \A s \in Launched :
       \A i \in 1..Len(promise[s].value) : WellFormedItem(promise[s].value[i])
  /\ \A i \in 1..Len(agg.out) : WellFormedItem(agg.out[i])

\* C7: a returned list with a merged item and a recall without classification
C7_Witness ==
  /\ agg.state = "resolved"
  /\ \E i \in 1..Len(agg.out) : Len(agg.out[i].sources) > 1
  /\ \E i \in 1..Len(agg.out) :
       agg.out[i].category = "Recall" /\ agg.out[i].classification = Null

\* C4: whatever the upstreams do, every launched adapter promise settles and
\* the aggregate promise resolves
C4_AsStated ==
  (agg.state = "pending") ~>
    (agg.state = "resolved" /\ \A s \in Launched : IsSettled(promise[s]))

\* ------------------------------------- claims on single adapter calls

\* C2: once a request of an adapter failed in transport the promise of the
\* adapter never rejects; it settles when its last request is over; fulfilled
\* without any request answered 200, it holds the empty list
C2_FulfilsOnTransportFailure ==
  /\ "transport" \in replies => settled.state # "rejected"
  /\ ("transport" \in replies /\ inflight = {}) => settled.state = "fulfilled"
  /\ (settled.state = "fulfilled" /\ "ok" \notin replies) => settled.value = <<>>

\* C2: an adapter fulfilled with the items of the requests that succeeded
\* although another of its requests failed in transport
C2_Witness ==
  /\ "transport" \in replies /\ "ok" \in replies
  /\ settled.state = "fulfilled" /\ settled.value # <<>>

\* C3: after a 200 body that fails to parse, the promise of the news adapter
\* and of the two recall adapters is fulfilled with the empty list
C3_AsStated ==
  (adapter \in {"fsn", "fda", "fsis"} /\ "parse" \in replies) =>
    settled = Settled("fulfilled", <<>>)

\* ------------------------------------------- claims on merged clusters

\* the elements of an array-valued property; null and absent have none
SetOf(x) == IF x = NullList THEN {} ELSE ToSet(x)

NoRepeats(s) == \A i, j \in 1..Len(s) : i # j => s[i] # s[j]

\* the input items merged into cluster i so far, first one first
InputsOf(i) == [k \in 1..Len(members[i]) |-> dedupIn[members[i][k]]]

UnionOf(field, i) == UNION {SetOf(InputsOf(i)[k][field]) : k \in 1..Len(members[i])}

\* cluster i is the result of at least one mergeItems call
IsMerged(i) == Len(members[i]) >= 2

DedupDone == cursor = Len(dedupIn)

\* C11: sources, source_urls and tags of a merge result are the duplicate-free
\* union of the merged items' values; each cluster carries the union of the
\* sources and URLs of every input merged into it, so that every source and
\* URL of the input is in the output.
C11_AsStated ==
  /\ \A i \in 1..Len(merged) :
       /\ \A f \in {"sources", "source_urls"} :
            SetOf(merged[i][f]) = UnionOf(f, i) /\ NoRepeats(merged[i][f])
       /\ IsMerged(i) =>
            SetOf(merged[i].tags) = UnionOf("tags", i) /\ NoRepeats(merged[i].tags)
  /\ DedupDone =>
       \A k \in 1..Len(dedupIn) : \A f \in {"sources", "source_urls"} :
         \A x \in SetOf(dedupIn[k][f]) :
           \E i \in 1..Len(merged) : x \in SetOf(merged[i][f])

\* some item merged into cluster i after the first one has tags
LaterTags(i) == \E k \in 2..Len(members[i]) : TruthyArr(InputsOf(i)[k].tags)

\* C11, amended: sources and source_urls of a cluster are the duplicate-free
\* union of those of the inputs merged into it, and every source and URL of
\* the input is in the output; tags of a merged cluster have the elements of
\* the union, without repeats once a merged-in item had tags, and are the
\* first item's tags as they were otherwise.
C11_UnionOfInputs ==
  /\ \A i \in 1..Len(merged) :
       /\ \A f \in {"sources", "source_urls"} :
            SetOf(merged[i][f]) = UnionOf(f, i) /\ NoRepeats(merged[i][f])
       /\ SetOf(merged[i].tags) = UnionOf("tags", i)
       /\ IF LaterTags(i) THEN NoRepeats(merged[i].tags)
          ELSE merged[i].tags = InputsOf(i)[1].tags
  /\ DedupDone =>
       \A k \in 1..Len(dedupIn) : \A f \in {"sources", "source_urls"} :
         \A x \in SetOf(dedupIn[k][f]) :
           \E i \in 1..Len(merged) : x \in SetOf(merged[i][f])

\* C11 witness: a finished run with a cluster merged from three inputs of
\* three providers and three URLs, whose tags were merged too
C11_Witness ==
  /\ DedupDone
  /\ \E i \in 1..Len(merged) :
       /\ Len(members[i]) = 3
       /\ Len(merged[i].sources) = 3
       /\ Len(merged[i].source_urls) = 3
       /\ LaterTags(i)

\* the single-valued optional properties mergeItems fills in
FillFields ==
  {"pathogen", "product", "states", "recall_number", "classification", "case_count",
   "recalling_firm"}

\* the value of property f is not null, undefined or absent
IsPresent(f, v) ==
  CASE f = "case_count" -> v # NoNum
    [] f = "states" -> v # NullList
    [] OTHER -> v # Null

\* JavaScript truthiness of the value of property f
Truthy(f, v) ==
  CASE f = "case_count" -> TruthyNum(v)
    [] f = "states" -> TruthyArr(v)
    [] OTHER -> TruthyStr(v)

\* the value of f of the first input of cluster i that passes the test, and
\* of the first input when none does
FirstValue(i, f, Test(_, _)) ==
  LET hits == {k \in 1..Len(members[i]) : Test(f, InputsOf(i)[k][f])}
  IN IF hits = {} THEN InputsOf(i)[1][f]
     ELSE InputsOf(i)[CHOOSE k \in hits : \A j \in hits : k <= j][f]

\* C13: each of pathogen, product, states, recall_number, classification,
\* case_count and recalling_firm of a merge result is primary's value when
\* primary has one and secondary's only when primary's is null or absent, so
\* a cluster keeps the first value any of its inputs had.
C13_AsStated ==
  \A i \in 1..Len(merged) : \A f \in FillFields :
    merged[i][f] = FirstValue(i, f, IsPresent)

\* C13, amended: ... primary's value when it is truthy (not null, absent, 0
\* or the empty string) or secondary's is not truthy, and secondary's value
\* otherwise, so a cluster keeps the first truthy value any of its inputs had.
C13_FirstTruthy ==
  \A i \in 1..Len(merged) : \A f \in FillFields :
    merged[i][f] = FirstValue(i, f, Truthy)

\* C13 witness: a finished run with a cluster whose second input filled in a
\* property the first one had no truthy value of, and whose first input kept
\* a property against a different value of the second
C13_Witness ==
  /\ DedupDone
  /\ \E i \in 1..Len(merged) : \E f, g \in FillFields :
       /\ IsMerged(i)
       /\ ~Truthy(f, InputsOf(i)[1][f])
       /\ Truthy(f, InputsOf(i)[2][f]) /\ merged[i][f] = InputsOf(i)[2][f]
       /\ Truthy(g, InputsOf(i)[1][g]) /\ Truthy(g, InputsOf(i)[2][g])
       /\ InputsOf(i)[1][g] # InputsOf(i)[2][g]
       /\ merged[i][g] = InputsOf(i)[1][g]

\* the rank of the claim: high > medium > low
RankOf(sev) == CASE sev = "high" -> 3 [] sev = "medium" -> 2 [] sev = "low" -> 1

\* C14: the severity of a merge result is the higher-ranked of the two, so the
\* severity of a cluster is the highest severity among the inputs merged into
\* it so far (and so never decreases as inputs are merged).
C14_HighestSeverity ==
  \A i \in 1..Len(merged) :
    /\ \E k \in 1..Len(members[i]) : merged[i].severity = InputsOf(i)[k].severity
    /\ \A k \in 1..Len(members[i]) :
         RankOf(merged[i].severity) >= RankOf(InputsOf(i)[k].severity)

\* C14 witness: a finished run with a cluster whose second input raised the
\* severity of the first and whose third input, ranked lower, left it there
C14_Witness ==
  /\ DedupDone
  /\ \E i \in 1..Len(merged) :
       /\ Len(members[i]) = 3
       /\ RankOf(InputsOf(i)[1].severity) < RankOf(InputsOf(i)[2].severity)
       /\ RankOf(InputsOf(i)[3].severity) < RankOf(InputsOf(i)[2].severity)
       /\ merged[i].severity = InputsOf(i)[2].severity

\* C15: mergeItems leaves title, date and category as in primary, so a
\* cluster keeps those of the first item clustered, a null date included.
C15_KeepsFraming ==
  \A i \in 1..Len(merged) : \A f \in {"title", "date", "category"} :
    merged[i][f] = InputsOf(i)[1][f]

\* C15 witness: a finished run with a cluster whose first input is undated
\* and whose second input has a date and another title
C15_Witness ==
  /\ DedupDone
  /\ \E i \in 1..Len(merged) :
       /\ IsMerged(i)
       /\ InputsOf(i)[1].date = NoNum /\ InputsOf(i)[2].date # NoNum
       /\ InputsOf(i)[1].title # InputsOf(i)[2].title
       /\ merged[i].date = NoNum

\* --------------------------------------------- claims on mergeItems calls

Merged == mergeOut # <<>>

\* C12: mergeItems(mergeItems(A, B), B) has the same sources and source_urls
\* sets as mergeItems(A, B), for all items A and B.
C12_Idempotent ==
  Merged => \A f \in {"sources", "source_urls"} :
              SetOf(mergeOut[2][f]) = SetOf(mergeOut[1][f])

\* C12 witness: a merge that added a source and a URL to the primary's, merged
\* with the secondary again
C12_Witness ==
  /\ Merged
  /\ \A f \in {"sources", "source_urls"} :
       /\ SetOf(mergeArgs[1][f]) # SetOf(mergeOut[1][f])
       /\ SetOf(mergeArgs[2][f]) # SetOf(mergeOut[1][f])
       /\ mergeOut[2][f] = mergeOut[1][f]

\* ------------------------------------------ claims on the outbreak adapter

CdcDone == adapter = "cdc" /\ settled.state = "fulfilled"

\* the call has days <= 1 and no since
ShortWindow(o) == o.since = NoNum /\ o.days <= 1

HasKey(list, key) == \E i \in 1..Len(list) : list[i]._dedup_key = key

\* C16: with days <= 1 and no since the outbreak adapter returns no undated
\* item, and nothing when only the listing-page strategy returned results;
\* with since or days > 1 the undated listing-page items are kept (each is in
\* the result unless the media strategy returned an item of its key).
C16_ShortWindowDropsUndated ==
  CdcDone =>
    IF ShortWindow(aopts)
    THEN /\ \A i \in 1..Len(settled.value) : settled.value[i].date # NoNum
         /\ (locals.mediaItems = <<>> /\ locals.rssItems = <<>>) => settled.value = <<>>
    ELSE \A i \in 1..Len(locals.pageItems) :
           \/ locals.pageItems[i] \in ToSet(settled.value)
           \/ HasKey(locals.mediaItems, locals.pageItems[i]._dedup_key)

\* C16 witness: a call with days 1 and no since in which only the listing
\* pages returned items, all undated, and the adapter fulfilled with []
C16_Witness ==
  /\ CdcDone /\ ShortWindow(aopts)
  /\ locals.pageItems # <<>>
  /\ \A i \in 1..Len(locals.pageItems) : locals.pageItems[i].date = NoNum
  /\ locals.mediaItems = <<>> /\ locals.rssItems = <<>>
  /\ settled.value = <<>>

\* the requests of a call site that ended, and those of them answered with a
\* body that parsed
Ended(site) == {r \in DOMAIN served : r[1] = site}
Answered(site) == {r \in Ended(site) : served[r].ok}

\* every request a strategy made failed
StrategyFailed(site) == Answered(site) = {}

KeysOf(list) == {list[i]._dedup_key : i \in 1..Len(list)}

\* the keys of the items the upstream answers of a strategy hold for the call
MediaKeys ==
  {cdcMediaBuilt[rec].item._dedup_key :
     rec \in {x \in UNION {ToSet(served[r].body.results) : r \in Answered("media")} :
               InWindow(cdcBestDate(x), cutoffOf(aopts)) /\ cdcMediaBuilt[x].relevant}}
PageKeys ==
  {cdcPageBuilt[a].item._dedup_key :
     a \in {x \in UNION {ToSet(served[r].body) : r \in Answered("page")} :
             cdcPageBuilt[x].relevant}}
FeedKeys ==
  {cdcRssBuilt[e].item._dedup_key :
     e \in {x \in UNION {ToSet(served[r].body.items) : r \in Answered("feed")} :
             InWindow(x.pubDate, cutoffOf(aopts)) /\ cdcRssBuilt[x].relevant}}

\* C17: the three strategies fail independently: the adapter fulfils with the
\* union, deduplicated by _dedup_key, of the results of the strategies that
\* succeeded, and the result is empty only if all three strategies failed.
C17_AsStated ==
  CdcDone =>
    /\ KeysOf(settled.value) = MediaKeys \cup PageKeys \cup FeedKeys
    /\ NoRepeats([i \in 1..Len(settled.value) |-> settled.value[i]._dedup_key])
    /\ settled.value = <<>> =>
         StrategyFailed("media") /\ StrategyFailed("page") /\ StrategyFailed("feed")

\* C17, amended: ... the union of the results of the strategies that
\* succeeded, the undated listing-page items left out when days <= 1 and no
\* since is given; the result is empty if all three strategies failed.
C17_UnionOfStrategies ==
  CdcDone =>
    /\ KeysOf(settled.value) =
         MediaKeys \cup (IF ShortWindow(aopts) THEN {} ELSE PageKeys) \cup FeedKeys
    /\ NoRepeats([i \in 1..Len(settled.value) |-> settled.value[i]._dedup_key])
    /\ (StrategyFailed("media") /\ StrategyFailed("page") /\ StrategyFailed("feed"))
         => settled.value = <<>>

\* C17 witness: a call in which every media query failed and the adapter
\* fulfilled with the items of the listing pages and of the feeds
C17_Witness ==
  /\ CdcDone
  /\ StrategyFailed("media") /\ Ended("media") # {}
  /\ PageKeys # {} /\ FeedKeys # {}
  /\ KeysOf(settled.value) = PageKeys \cup FeedKeys

ScrapeRequest == <<"scrape", 1>>
FallbackRequest == <<"fallback", 1>>

\* the REST fallback has been queried: its request is out or has ended
FallbackQueried == FallbackRequest \in inflight \cup DOMAIN served

\* the rows of the scraped page that make recalls of the window
ScrapeRows ==
  IF served[ScrapeRequest].ok
  THEN SelectSeq(served[ScrapeRequest].body.rows,
                 LAMBDA row : /\ row.cells >= 3 /\ row.hasLink
                              /\ row.date # NoNum /\ row.date >= cutoffOf(aopts))
  ELSE <<>>

\* the records of the REST answer that name a product of the vocabulary
InVocabulary ==
  IF served[FallbackRequest].ok
  THEN SelectSeq(served[FallbackRequest].body.results,
                 LAMBDA rec : \/ isFSISProduct(rec.product_description)
                              \/ isFSISProduct(rec.reason_for_recall))
  ELSE <<>>

\* C18: the REST fallback is queried if and only if the scrape yielded zero
\* results or failed: a non-empty scrape result is returned as is without a
\* REST query, otherwise the REST results restricted to the product
\* vocabulary are returned, and when both tiers fail the adapter fulfils with
\* an empty list.
C18_FallbackIffNoScrape ==
  adapter = "fsis" =>
    /\ FallbackQueried <=> (ScrapeRequest \in DOMAIN served /\ ScrapeRows = <<>>)
    /\ (ScrapeRequest \in DOMAIN served /\ ScrapeRows # <<>>) =>
          settled = Settled("fulfilled", MapSeq(ScrapeRows, fsisRowItem))
    /\ FallbackRequest \in DOMAIN served =>
          /\ settled.state = "fulfilled"
          /\ settled.value = MapSeq(InVocabulary, fsisFallbackItem)
          /\ (~served[ScrapeRequest].ok /\ ~served[FallbackRequest].ok) => settled.value = <<>>
    /\ FallbackRequest \notin DOMAIN served =>
          (settled.state = "pending" <=> inflight # {})

\* C18 witness: the scrape failed and the fallback answered with a record of
\* the vocabulary and one outside it; the adapter fulfilled with the former
C18_Witness ==
  /\ adapter = "fsis"
  /\ ScrapeRequest \in DOMAIN served /\ ~served[ScrapeRequest].ok
  /\ FallbackRequest \in DOMAIN served /\ served[FallbackRequest].ok
  /\ Len(InVocabulary) = 1 /\ Len(served[FallbackRequest].body.results) = 2
  /\ settled.state = "fulfilled" /\ Len(settled.value) = 1

\* the url of a feed item, Null when it has neither link nor guid
UrlOf(item) == OrStr(item.link, item.guid)

\* the items of an answered topic feed that are in the window of the call and
\* have a url
Delivered(r) ==
  {it \in ToSet(served[r].body.items) :
     InWindow(it.pubDate, cutoffOf(aopts)) /\ TruthyStr(UrlOf(it))}

\* the urls of a list of articles, in the order of the list
UrlsOf(list) == [i \in 1..Len(list) |-> list[i].source_urls[1]]

MagazineDone == adapter = "fsm" /\ inflight = {}

\* C19: for every interleaving of the topic feeds the returned list has no
\* two items with the same url, and each in-window article url delivered by
\* at least one successful feed appears exactly once.
C19_EachUrlOnce ==
  MagazineDone =>
    /\ settled.state = "fulfilled"
    /\ NoRepeats(UrlsOf(settled.value))
    /\ ToSet(UrlsOf(settled.value))
         = {UrlOf(it) : it \in UNION {Delivered(r) : r \in Answered("topic")}}

\* C19 witness: two feeds delivered the same in-window article, the feed of
\* the later topic first, and the returned list holds it once, under the
\* category of that topic
C19_Witness ==
  /\ MagazineDone
  /\ \E r, q \in Answered("topic") : r # q /\ Delivered(r) \cap Delivered(q) # {}
  /\ \E i \in 1..Len(settled.value) :
        /\ settled.value[i].source_urls = <<MagLessons.link>>
        /\ settled.value[i].category = DEFAULT_TOPICS[306]

\* C20: for any subset of topic feeds that fail (fetch or parse) the adapter
\* still fulfils and its result contains the in-window articles of every
\* feed that did not fail; a failing feed removes nothing contributed by
\* another feed.
C20_FailuresIsolated ==
  adapter = "fsm" =>
    /\ \A r \in Answered("topic") : \A it \in Delivered(r) :
          \E i \in 1..Len(locals.allArticles) :
            /\ locals.allArticles[i].source_urls = <<UrlOf(it)>>
            /\ locals.allArticles[i].title = stripHtml(it.title)
            /\ locals.allArticles[i].date = it.pubDate
    /\ inflight = {} =>
          /\ settled.state = "fulfilled"
          /\ ToSet(settled.value) = ToSet(locals.allArticles)
          /\ Len(settled.value) = Len(locals.allArticles)

\* C20 witness: two feeds failed, one by its fetch and one by its parse, and
\* the adapter fulfilled with the articles of the third
C20_Witness ==
  /\ MagazineDone /\ settled.state = "fulfilled"
  /\ {"parse", "transport"} \subseteq replies
  /\ Cardinality(Answered("topic")) = 1
  /\ \E r \in Answered("topic") : Delivered(r) # {}
  /\ settled.value # <<>>

\* extractPathogen has been applied to the first text
Extracted == textOut # <<>> /\ textOut[1] = "extractPathogen"

\* the entries of the vocabulary a text contains, by their positions in it
Named(text) ==
  IF ~TruthyStr(text) THEN {}
  ELSE {i \in 1..Len(PATHOGENS) : Includes(toLowerCase(text), PATHOGENS[i])}

\* where an entry the text contains occurs first in it
FirstAt(text, entry) ==
  CHOOSE i \in 1..Len(text) :
    /\ SubSeq(toLowerCase(text), i, i + Len(entry) - 1) = entry
    /\ \A j \in 1..(i - 1) : SubSeq(toLowerCase(text), j, j + Len(entry) - 1) # entry

\* the canonical name of an entry of the vocabulary
Canonical(entry) ==
  IF entry \in {<<"e","."," ","c","o","l","i">>, <<"e",".","c","o","l","i">>, <<"e","s","c","h","e","r","i","c","h","i","a"," ","c","o","l","i">>} THEN <<"E","."," ","c","o","l","i">>
  ELSE <<Upper(entry[1])>> \o SubSeq(entry, 2, Len(entry))

\* C21: for a text that contains several pathogens of the vocabulary,
\* extractPathogen returns the canonical name of the one that occurs earliest
\* in the text, and null when the text contains none.
C21_AsStated ==
  Extracted =>
    IF Named(textArgs[1]) = {} THEN textOut[2] = Null
    ELSE \E i \in Named(textArgs[1]) :
           /\ textOut[2] = Canonical(PATHOGENS[i])
           /\ \A j \in Named(textArgs[1]) :
                 FirstAt(textArgs[1], PATHOGENS[i]) <= FirstAt(textArgs[1], PATHOGENS[j])

\* C21, amended: ... returns the canonical name of the one that comes first
\* in the vocabulary, wherever it occurs in the text, and null when the text
\* contains none.
C21_FirstOfVocabulary ==
  Extracted =>
    IF Named(textArgs[1]) = {} THEN textOut[2] = Null
    ELSE \E i \in Named(textArgs[1]) :
           /\ textOut[2] = Canonical(PATHOGENS[i])
           /\ \A j \in Named(textArgs[1]) : i <= j

\* C21 witness: a text that names Listeria before Salmonella, for which
\* extractPathogen returned Salmonella
C21_Witness ==
  /\ Extracted
  /\ Named(textArgs[1]) = {1, 5}
  /\ FirstAt(textArgs[1], <<"l","i","s","t","e","r","i","a">>) < FirstAt(textArgs[1], <<"s","a","l","m","o","n","e","l","l","a">>)
  /\ textOut[2] = <<"S","a","l","m","o","n","e","l","l","a">>

\* the clusters whose representative the next item duplicates
DuplicatedBy(item) == {i \in 1..Len(merged) : areDuplicates(merged[i], item)}

\* the positions of the input taken so far, each with the cluster it is in
ClustersOf(k) == {i \in 1..Len(members) : k \in ToSet(members[i])}

\* C22: deduplicateAndMerge processes the input in order and merges each item
\* into the lowest-index cluster whose current merged representative is a
\* duplicate of it, into at most one cluster, and otherwise appends it as a
\* new cluster; the output order is the order of the clusters' first members
\* and the output is never longer than the input.
C22_LowestCluster ==
  [][LET item == dedupIn[cursor + 1]
         hits == DuplicatedBy(item)
     IN /\ cursor' = cursor + 1
        /\ IF hits = {} THEN merged' = Append(merged, item)
           ELSE \E i \in hits :
                  /\ \A j \in hits : i <= j
                  /\ Len(merged') = Len(merged)
                  /\ merged'[i] = mergeItems(merged[i], item)
                  /\ \A j \in 1..Len(merged) : j # i => merged'[j] = merged[j]
        /\ \A k \in 1..cursor' : Cardinality(ClustersOf(k)') = 1
        /\ Len(members') = Len(merged')
        /\ \A i, j \in 1..Len(merged') : i < j => members'[i][1] < members'[j][1]
        /\ \A i \in 1..Len(merged') : merged'[i].title = dedupIn[members'[i][1]].title
        /\ Len(merged') <= cursor'
    ]_vars

\* C22 witness: the third item duplicates both the first and the second,
\* which are two clusters, and is in the first cluster
C22_Witness ==
  /\ cursor = 3 /\ Len(merged) = 2
  /\ members = <<<<1, 3>>, <<2>>>>
  /\ areDuplicates(dedupIn[1], dedupIn[3]) /\ areDuplicates(dedupIn[2], dedupIn[3])
  /\ ~areDuplicates(dedupIn[1], dedupIn[2])

\* the input is A, B, C: A and B are duplicates by title similarity, B and C
\* by equal recalling_firm, A and C are not duplicates of each other
ChainOfThree ==
  /\ Len(dedupIn) = 3
  /\ Exceeds(textSimilarity(dedupIn[1].title, dedupIn[2].title), 3, 5)
  /\ TruthyStr(dedupIn[2].recalling_firm) /\ TruthyStr(dedupIn[3].recalling_firm)
  /\ toLowerCase(dedupIn[2].recalling_firm) = toLowerCase(dedupIn[3].recalling_firm)
  /\ ~areDuplicates(dedupIn[1], dedupIn[3]) /\ ~areDuplicates(dedupIn[3], dedupIn[1])

\* C23: for items A, B, C given in that order, where A and B are duplicates
\* by title similarity, B and C by equal recalling_firm, and A and C are not
\* duplicates of each other, deduplicateAndMerge merges all three into one
\* cluster, because C is tested against the merged representative of A and B.
C23_AsStated == (DedupDone /\ ChainOfThree) => Len(merged) = 1

\* C23, amended: ... and A has no recalling_firm of its own ...
C23_FirmFilledIn ==
  (DedupDone /\ ChainOfThree /\ ~TruthyStr(dedupIn[1].recalling_firm)) =>
    /\ Len(merged) = 1
    /\ areDuplicates(mergeItems(dedupIn[1], dedupIn[2]), dedupIn[3])

\* C23 witness: a news article, the recall it reports and another recall of
\* the same firm end as one cluster
C23_Witness ==
  /\ DedupDone /\ ChainOfThree /\ ~TruthyStr(dedupIn[1].recalling_firm)
  /\ members = <<<<1, 2, 3>>>>
  /\ merged[1].recalling_firm = dedupIn[2].recalling_firm

\* textSimilarity has been applied to the two texts
Compared == textOut # <<>> /\ textOut[1] = "textSimilarity"

\* the lowercased alphanumeric tokens of a text that are longer than two
\* characters: its whitespace-separated words, each without the characters
\* that are neither letters nor digits
TokensOf(text) ==
  IF ~TruthyStr(text) THEN {}
  ELSE {w \in {SelectSeq(toLowerCase(x), LAMBDA c : c \in LowerLetters \cup Digits) :
                 x \in ToSet(SplitWs(text))} : Len(w) > 2}

\* C24: textSimilarity(a, b) equals |A n B| / min(|A|, |B|), where A and B
\* are the sets of lowercased alphanumeric tokens longer than two characters,
\* and 0 when either set is empty; hence whenever every token of the shorter
\* title occurs in the longer one the similarity is 1 and the two items are
\* duplicates.
C24_OverlapOverSmaller ==
  Compared =>
    LET A == TokensOf(textArgs[1])
        B == TokensOf(textArgs[2])
        q == textOut[2]
    IN IF A = {} \/ B = {} THEN q[1] = 0
       ELSE /\ q[1] * MinOf(Cardinality(A), Cardinality(B)) = Cardinality(A \cap B) * q[2]
            /\ q[2] > 0
            /\ (A \subseteq B \/ B \subseteq A) => (q[1] = q[2] /\ textOut[3])

\* C24 witness: 'beef' against a longer title that has 'Beef,' and another
\* token: the similarity is 1 and the items are duplicates
C24_Witness ==
  /\ Compared
  /\ textArgs[2] = <<"b","e","e","f">>
  /\ TruthyStr(textArgs[1]) /\ Includes(textArgs[1], <<"B","e","e","f",",">>)
  /\ Cardinality(TokensOf(textArgs[1])) = 2
  /\ textOut[2] = <<1, 1>> /\ textOut[3]

\* the scraped page embeds recall data with a recall inside the window
EmbedsRecalls ==
  /\ adapter = "fsis"
  /\ ScrapeRequest \in DOMAIN served /\ served[ScrapeRequest].ok
  /\ \E i \in 1..Len(served[ScrapeRequest].body.embedded) :
        served[ScrapeRequest].body.embedded[i].date >= cutoffOf(aopts)

\* C25: when the listing page carries embedded structured recall data with at
\* least one recall inside the cutoff window, the scrape tier returns the
\* recalls parsed from that data and the REST fallback is not used.
C25_AsStated ==
  EmbedsRecalls =>
    /\ ~FallbackQueried
    /\ settled.state = "fulfilled" /\ settled.value # <<>>

\* the url a chain of locations that starts at u ends at, 0 when it has not
\* ended after n hops
RECURSIVE EndOfChain(_, _)
EndOfChain(u, n) ==
  IF route[u].kind # "3xx" THEN u
  ELSE IF n = 0 THEN 0
  ELSE EndOfChain(route[u].to, n - 1)

\* the locations of the call's url form a finite chain that ends in a 200
ChainTo200 ==
  /\ route # <<>>
  /\ EndOfChain(1, MaxUrls) # 0
  /\ route[EndOfChain(1, MaxUrls)].kind = "200"

\* the locations lead back to a url of the chain: after as many hops as
\* there are urls the chain has not ended
RedirectCycle == route # <<>> /\ EndOfChain(1, MaxUrls) = 0

\* C26: fetchURL follows every 3xx response that has a Location header by
\* fetching that location again, with no cap on the number of hops: a finite
\* redirect chain that ends in a 200 resolves with the final body, and a
\* redirect cycle whose every hop answers before the timeout never settles.
C26_FollowsEveryRedirect ==
  /\ [](ChainTo200 =>
        /\ fetched \in {StillPending, Settled("fulfilled", BodyOf(EndOfChain(1, MaxUrls)))}
        /\ <>(fetched = Settled("fulfilled", BodyOf(EndOfChain(1, MaxUrls)))))
  /\ [](RedirectCycle => fetched = StillPending)

\* C26 witness: the url redirects to a second, that to a third, which answers
\* 200, and the call resolved with the body of the third
C26_Witness ==
  /\ route # <<>>
  /\ route[1] = [kind |-> "3xx", to |-> 2]
  /\ route[2] = [kind |-> "3xx", to |-> 3]
  /\ route[3].kind = "200"
  /\ fetched = Settled("fulfilled", BodyOf(3))

\* C27: no two items in the list returned by deduplicateAndMerge are
\* duplicates of each other under areDuplicates, for every input list and
\* every input order.
C27_AsStated ==
  DedupDone =>
    \A i, j \in 1..Len(merged) : i # j => ~areDuplicates(merged[i], merged[j])

\* an item the REST fallback of the FSIS adapter built
FromFallback(item) == item.sources = <<<<"U","S","D","A"," ","F","S","I","S">>, <<"F","D","A">>>>

\* two items with different recall numbers, different firms, different
\* pathogens and dissimilar titles
Unrelated(a, b) ==
  /\ a.recall_number # b.recall_number
  /\ toLowerCase(a.recalling_firm) # toLowerCase(b.recalling_firm)
  /\ a.pathogen # b.pathogen
  /\ ~Exceeds(textSimilarity(a.title, b.title), 3, 5)

\* C28: two items produced by the REST fallback of the FSIS adapter for
\* recalls with different recall numbers, different firms, different
\* pathogens and dissimilar titles are not duplicates under areDuplicates, so
\* fetchAll returns them as separate items.
C28_AsStated ==
  (/\ DedupDone /\ Len(dedupIn) = 2
   /\ FromFallback(dedupIn[1]) /\ FromFallback(dedupIn[2])
   /\ Unrelated(dedupIn[1], dedupIn[2])) =>
    /\ ~areDuplicates(dedupIn[1], dedupIn[2])
    /\ Len(merged) = 2
    /\ Len(fetchAllOutput(dedupIn)) = 2

\* the items of an adapter under its fixed result
ResultOf(s) == IF outcome[s] = "fulfilled" THEN FixedItems[s] ELSE <<>>

\* where adapter s is in the order of settling
SettledAt(s) == CHOOSE i \in 1..Len(settleOrder) : settleOrder[i] = s

\* C29: for fixed results of the adapters, the list returned by fetchAll is
\* the same for every order in which the adapter promises settle: results are
\* flattened in the fixed order fsn, fsm, fda, fsis, cdc, so which item
\* becomes a cluster's primary depends on that order and not on completion
\* time.
C29_SameForEverySettleOrder ==
  agg.state = "resolved" =>
    /\ agg.out = fetchAllOutput(ResultOf("fsn") \o ResultOf("fsm") \o ResultOf("fda")
                                  \o ResultOf("fsis") \o ResultOf("cdc"))
    /\ \A i \in 1..Len(agg.out) :
         \A k \in 1..Len(SourceOrder) : \A x \in ToSet(ResultOf(SourceOrder[k])) :
           (/\ agg.out[i].title = x.title
            /\ \A j \in 1..(k - 1) : \A y \in ToSet(ResultOf(SourceOrder[j])) :
                  ~areDuplicates(y, x))
             => agg.out[i].sources[1] = x.sources[1]

\* C29 witness: the FDA and FSIS promises settled before the news promise,
\* and the returned cluster of the Acme recall has the news article as its
\* primary
C29_Witness ==
  /\ agg.state = "resolved"
  /\ outcome["fsn"] = "fulfilled" /\ outcome["fda"] = "fulfilled"
  /\ SettledAt("fda") < SettledAt("fsn") /\ SettledAt("fsis") < SettledAt("fsn")
  /\ \E i \in 1..Len(agg.out) :
        /\ agg.out[i].title = FixedItems["fsn"][1].title
        /\ agg.out[i].sources[1] = <<"F","o","o","d"," ","S","a","f","e","t","y"," ","N","e","w","s">>
        /\ <<"F","D","A">> \in Providers(agg.out[i])

\* the shared locals after the topic callbacks ran one after the other in the
\* order of the topics option, each on what its feed served
RECURSIVE TopicsInTurn(_, _)
TopicsInTurn(acc, ids) ==
  IF ids = <<>> THEN acc
  ELSE LET r == <<"topic", Head(ids)>>
       IN TopicsInTurn(topicStep(acc, served[r].ok, served[r].body, Head(ids), aopts),
                       Tail(ids))

\* C30: for fixed contents of the topic feeds, the list returned by the
\* magazine adapter (the items and the category and tags of each item,
\* including an article that appears in several topic feeds) is the same for
\* every order in which the concurrent topic fetches complete: it is the list
\* of the order in which the topics were asked.
C30_AsStated ==
  MagazineDone =>
    settled.value = sortArticles(TopicsInTurn(<<{}, <<>>>>, TopicsAsked)[2])

====
